---- MODULE Spec2Model ----
(***************************************************************************)
(* Model of the school-app browser client (kai-squared/school-app).       *)
(*                                                                         *)
(* The repository holds three snapshots of the client script:             *)
(*   - src/static/app.js          the placeholder skeleton,               *)
(*   - src/README.md  53..852     the client without a search-mode        *)
(*                                selector (names suffixed with 2 here),  *)
(*   - src/README.md 854..1850    the client with search-mode selection,  *)
(*                                radius and "load more".                 *)
(* Each feature area is a specification of its own over the shared        *)
(* variables: SpecWatch (profile, watchlist, storage), SpecSearch         *)
(* (search with mode selection and load-more), SpecSearch2 (search        *)
(* without mode selector), SpecRec (audio recording), SpecHist (chat      *)
(* history), SpecChat (search with school details and school chat),       *)
(* SpecProfile (the profile form), SpecInterview (application analysis    *)
(* and interview questions), SpecPractice (recordings of a practice run   *)
(* with transcription and feedback) and SpecRecorder (the record button   *)
(* over a practice run, with the clock).                                   *)
(***************************************************************************)
EXTENDS Integers, Sequences, FiniteSets, TLC

VARIABLES
    \* ---- profile / watchlist / browser storage ----
    studentProfile,     \* state.studentProfile: NULL or Obj(record of the form fields)
    watchlist,          \* state.watchlist: sequence of school records
    storage,            \* localStorage: key -> JSON text (token sequence), <<>> = no item
    alertMsg,           \* text of the alert shown by the last handler, "" if none
    watchlistView,      \* #watchlistContainer: names of the rendered watchlist items
    schoolOptions,      \* <option> elements of #appSchoolSelect and #interviewSchoolSelect
    toggleBtn,          \* the card button last clicked: [name, added]
    \* ---- school search (client with search-mode selection) ----
    selectedType,       \* value of the checked input[name="searchType"] radio
    currentSearchQuery, \* state.currentSearchQuery (NULL or Obj(text))
    currentSearchType,  \* state.currentSearchType ("" before the first search)
    currentMiles,       \* state.currentMiles
    loadedSchools,      \* state.loadedSchools
    allSchoolsLoaded,   \* state.allSchoolsLoaded
    searchContext,      \* state.searchContext: JSON text, <<>> is the empty string
    resultsPanel,       \* content of #searchResults
    chatVisible,        \* #schoolChat no longer has class "hidden"
    network,            \* requests sent whose response has not arrived, with the
                        \* local variables of the suspended async handler
    hideTimers,         \* buttons with a pending setTimeout(... display = 'none', 2000)
    searchesSent,       \* how many search requests performSearch has sent (ghost)
    moresSent,          \* how many load-more requests have been sent (ghost)
    searchInput,        \* text in #schoolSearchInput (client without mode selector)
    \* ---- audio recording ----
    mediaRecorder,      \* state.mediaRecorder: index into recorders, 0 is null
    recorders,          \* every MediaRecorder created, with its stream
    pendingMedia,       \* startRecording calls waiting for getUserMedia
    recordingStartTime, \* state.recordingStartTime, in seconds
    recordBtn,          \* label of #recordBtn
    timers,             \* pending auto-stop timers, named by the recorder started with them
    now,                \* the clock, in seconds
    micAlert,           \* the "Error accessing microphone" alert has been shown
    \* ---- chat history ----
    chats,              \* the chat sessions, most recent first
    currentChatId,      \* id of the session shown, 0 if none
    chatStorage,        \* the chat-sessions item of localStorage
    chatPending,        \* sessions waiting for the answer to a message
    \* ---- school details and school chat ----
    detailRequests,     \* /api/schools/details requests whose response has not arrived
    detailsSent,        \* how many details requests have been sent (ghost)
    chatMessages,       \* the .chat-message elements of #chatMessages, in order
    chatRequests,       \* /api/schools/chat requests whose response has not arrived
    chatsSent,          \* how many chat requests have been sent (ghost)
    \* ---- application and interview sections ----
    interviewQuestions,   \* state.interviewQuestions: sequence of [question |-> text]
    currentQuestionIndex, \* state.currentQuestionIndex, counted from 0
    selectedSchool,       \* state.selectedSchool: NULL or Obj(school)
    questionsList,        \* #questionsList: [view, items], items = clickable questions
    recordingArea,        \* #recordingArea: "hidden" or "shown"
    currentQuestion,      \* text of #currentQuestion
    transcriptionArea,    \* #transcriptionArea: [hidden, text, feedback]
    applicationResponse,  \* #applicationResponse: "hidden", "loading", "analysis", "error"
    interviewRequests,    \* requests of these sections whose response has not arrived
    interviewSent,        \* how many such requests have been sent (ghost)
    processed,            \* recorders whose onstop handler has run
    \* ---- which handler ran last (history variable) ----
    last

searchVars == <<selectedType, currentSearchQuery, currentSearchType, currentMiles,
                loadedSchools, allSchoolsLoaded, searchContext, resultsPanel,
                chatVisible, network, hideTimers, searchesSent, moresSent,
                searchInput>>

recVars == <<mediaRecorder, recorders, pendingMedia, recordingStartTime, recordBtn,
             timers, now, micAlert>>

histVars == <<chats, currentChatId, chatStorage, chatPending>>

schoolChatVars == <<detailRequests, detailsSent, chatMessages, chatRequests, chatsSent>>

watchVars == <<studentProfile, watchlist, storage, alertMsg,
               watchlistView, schoolOptions, toggleBtn>>

interviewVars == <<interviewQuestions, currentQuestionIndex, selectedSchool,
                   questionsList, recordingArea, currentQuestion, transcriptionArea,
                   applicationResponse, interviewRequests, interviewSent, processed>>

vars == <<watchVars, searchVars, recVars, histVars, schoolChatVars, interviewVars, last>>

-----------------------------------------------------------------------------
(* Bounds *)

NumSchools == 3         \* how many distinct school names exist in the world
NumResults == 2         \* how many distinct schools the search backend knows
MaxPage == 1            \* longest list of schools in one response
MaxLoaded == 2          \* load-more pages are accepted while loadedSchools stays this short
MaxSearches == 2        \* search requests sent in one run
MaxMores == 2           \* load-more requests sent in one run
MaxQueryLen == 6        \* longest text typed into the search box
MaxRecordings == 2      \* recordings started in one run
MaxTime == 90           \* the clock stops here, in seconds
MaxChats == 2           \* chat sessions created in one run
MaxMessages == 2        \* messages in one chat session
MaxDetails == 1         \* details requests sent in one run
MaxChatsSent == 2       \* school-chat messages sent in one run
MaxRequests == 4        \* requests of any kind sent in one run of search with chat

-----------------------------------------------------------------------------
(* Data *)

\* null is the empty tuple; an object reference obj is the one-element tuple <<obj>>
NULL == <<>>
Obj(o) == <<o>>

AllNames == <<"Oak", "Elm", "Ash", "Fir">>
SchoolNames == {AllNames[i] : i \in 1..NumSchools}
SchoolTypes == {"Day", "Boarding"}
\* a school-summary object as the backend returns it
Schools == [name : SchoolNames, type : SchoolTypes]

ProfileFields == {"studentName", "grade"}
FieldValues == {"", "Kai"}
\* value of a key the object does not have
Absent == "undefined"
\* the object handleProfileSubmit builds from the form: one key per entry of
\* the FormData, which leaves out the controls that submit nothing
Profiles == {Obj(p) : p \in [ProfileFields -> FieldValues \cup {Absent}]}
\* the profiles of a form whose controls all submit a value
FullProfiles == {Obj(p) : p \in [ProfileFields -> FieldValues]}

Names(schools) == [i \in 1..Len(schools) |-> schools[i].name]

RECURSIVE FilterSeq(_, _)
\* a filter that drops everything from the first match on
FilterSeqTruncating(schools, schoolName) ==
    IF schools = <<>> THEN <<>>
    ELSE IF Head(schools).name # schoolName
         THEN <<Head(schools)>> \o FilterSeq(Tail(schools), schoolName)
         ELSE <<>>

\* Array.prototype.filter with the predicate "name differs from schoolName"
FilterSeq(schools, schoolName) ==
    IF schools = <<>> THEN <<>>
    ELSE IF Head(schools).name # schoolName
         THEN <<Head(schools)>> \o FilterSeq(Tail(schools), schoolName)
         ELSE FilterSeq(Tail(schools), schoolName)

\* a search by name that looks at the first entry only
HasNameOfFirst(schools, schoolName) == schools # <<>> /\ schools[1].name = schoolName

\* Array.prototype.find / some by name
HasName(schools, schoolName) == \E i \in 1..Len(schools) : schools[i].name = schoolName

-----------------------------------------------------------------------------
(* JSON text, as a sequence of tokens *)

RECURSIVE StringifySchools(_)
StringifySchools(schools) ==
    IF schools = <<>> THEN <<>>
    ELSE <<"{", "name", Head(schools).name, "type", Head(schools).type, "}">>
         \o StringifySchools(Tail(schools))

\* JSON.stringify(state.watchlist)
StringifyWatchlist(schools) == <<"[">> \o StringifySchools(schools) \o <<"]">>

\* a parse that keeps only the first entry of the stored watchlist
ParseSchoolsFirstOnly(tokens) ==
    IF Len(tokens) < 6 THEN <<>>
    ELSE <<[name |-> tokens[3], type |-> tokens[5]]>>

RECURSIVE ParseSchools(_)
ParseSchools(tokens) ==
    IF Len(tokens) < 6 THEN <<>>
    ELSE <<[name |-> tokens[3], type |-> tokens[5]]>>
         \o ParseSchools(SubSeq(tokens, 7, Len(tokens)))

\* JSON.parse of a stored watchlist
ParseWatchlist(tokens) == ParseSchools(SubSeq(tokens, 2, Len(tokens) - 1))

\* the key and value of field in JSON text, nothing for a key the object lacks
StringifyField(object, field) ==
    IF object[field] = Absent THEN <<>> ELSE <<field, object[field]>>

\* JSON.stringify(state.studentProfile): null becomes the text "null"
StringifyProfile(profile) ==
    IF profile = NULL THEN <<"null">>
    ELSE <<"{">> \o StringifyField(profile[1], "studentName")
         \o StringifyField(profile[1], "grade") \o <<"}">>

\* positions of the keys in the JSON text of an object
KeyPositions(tokens) == {i \in 2..(Len(tokens) - 2) : i % 2 = 0}

\* the value the JSON text gives to field
ParseField(tokens, field) ==
    IF \E i \in KeyPositions(tokens) : tokens[i] = field
    THEN tokens[(CHOOSE i \in KeyPositions(tokens) : tokens[i] = field) + 1]
    ELSE Absent

\* JSON.parse of a stored profile
ParseProfile(tokens) ==
    IF tokens = <<"null">> THEN NULL
    ELSE Obj([field \in ProfileFields |-> ParseField(tokens, field)])

NoItem == <<>>

-----------------------------------------------------------------------------
(* Profile, watchlist and storage handlers *)

saveToLocalStorage(profile, schools) ==
    [studentProfile |-> StringifyProfile(profile),
     watchlist |-> StringifyWatchlist(schools)]

\* updateWatchlist: one item per watchlist entry
updateWatchlist(schools) == Names(schools)

\* the <option> elements of a dropdown: the placeholder, then one option per
\* school, its value and its text both the name of the school
SelectOptions(schools) ==
    <<[value |-> "", text |-> "Select a school..."]>>
    \o [i \in 1..Len(schools) |-> [value |-> schools[i].name, text |-> schools[i].name]]

\* a refresh that rewrites the application dropdown only
updateSchoolSelectorsAppOnly(schools) ==
    [appSelect |-> SelectOptions(schools),
     interviewSelect |-> SelectOptions(<<>>)]

\* updateSchoolSelectors: the innerHTML of both dropdowns is rewritten
updateSchoolSelectors(schools) ==
    [appSelect |-> SelectOptions(schools),
     interviewSelect |-> SelectOptions(schools)]

Alert(msg) == alertMsg' = msg

NoAlert == alertMsg' = ""

\* addToWatchlist without the "already in watchlist" check
addToWatchlistUnchecked(school) ==
    /\ watchlist' = Append(watchlist, school)
    /\ storage' = saveToLocalStorage(studentProfile, watchlist')
    /\ watchlistView' = updateWatchlist(watchlist')
    /\ schoolOptions' = updateSchoolSelectors(watchlist')
    /\ NoAlert
    /\ UNCHANGED studentProfile

\* the state change of addToWatchlist(school), shared by the button paths
addToWatchlistBody(school) ==
    IF HasName(watchlist, school.name)
    THEN /\ Alert("School already in watchlist")
         /\ UNCHANGED <<studentProfile, watchlist, storage, watchlistView, schoolOptions>>
    ELSE /\ watchlist' = Append(watchlist, school)
         /\ storage' = saveToLocalStorage(studentProfile, watchlist')
         /\ watchlistView' = updateWatchlist(watchlist')
         /\ schoolOptions' = updateSchoolSelectors(watchlist')
         /\ NoAlert
         /\ UNCHANGED studentProfile

\* the state change of removeFromWatchlist(schoolName)
removeFromWatchlistBody(schoolName) ==
    /\ watchlist' = FilterSeq(watchlist, schoolName)
    /\ storage' = saveToLocalStorage(studentProfile, watchlist')
    /\ watchlistView' = updateWatchlist(watchlist')
    /\ schoolOptions' = updateSchoolSelectors(watchlist')
    /\ NoAlert
    /\ UNCHANGED studentProfile

addToWatchlist(school) ==
    /\ addToWatchlistBody(school)
    /\ UNCHANGED <<searchVars, recVars, histVars, interviewVars, schoolChatVars>>
    /\ last' = [op |-> "addToWatchlist", name |-> school.name,
                dup |-> HasName(watchlist, school.name)]
    /\ UNCHANGED toggleBtn

removeFromWatchlist(schoolName) ==
    /\ removeFromWatchlistBody(schoolName)
    /\ UNCHANGED <<searchVars, recVars, histVars, interviewVars, schoolChatVars>>
    /\ last' = [op |-> "removeFromWatchlist", name |-> schoolName,
                dup |-> HasName(watchlist, schoolName)]
    /\ UNCHANGED toggleBtn

\* toggleWatchlist(schoolName, schoolData): the presence test and the removal
\* go by schoolName, the addition by the name inside schoolData
toggleWatchlist(schoolName, school) ==
    /\ IF HasName(watchlist, schoolName)
       THEN removeFromWatchlistBody(schoolName)
       ELSE addToWatchlistBody(school)
    /\ toggleBtn' = [name |-> schoolName, added |-> HasName(watchlist', schoolName)]
    /\ UNCHANGED <<searchVars, recVars, histVars, interviewVars, schoolChatVars>>
    /\ last' = [op |-> "toggleWatchlist", name |-> schoolName,
                dup |-> HasName(watchlist, schoolName)]

\* the previous profile has a value that the form does not submit again
Overwrites(profile) ==
    /\ studentProfile # NULL
    /\ \E field \in ProfileFields :
          studentProfile[1][field] \notin {Absent, profile[1][field]}

\* a save that keeps the previous value of every key the form does not submit
handleProfileSubmitMerging(profile) ==
    /\ studentProfile' =
          IF studentProfile = NULL THEN profile
          ELSE Obj([field \in ProfileFields |->
                      IF profile[1][field] # Absent THEN profile[1][field]
                      ELSE studentProfile[1][field]])
    /\ storage' = saveToLocalStorage(studentProfile', watchlist)
    /\ Alert("Profile saved successfully!")
    /\ UNCHANGED <<searchVars, recVars, histVars, interviewVars, schoolChatVars>>
    /\ last' = [op |-> "handleProfileSubmit", name |-> "", dup |-> FALSE,
                profile |-> profile, overwrites |-> Overwrites(profile)]
    /\ UNCHANGED <<watchlist, watchlistView, schoolOptions, toggleBtn>>

handleProfileSubmit(profile) ==
    /\ studentProfile' = profile
    /\ storage' = saveToLocalStorage(studentProfile', watchlist)
    /\ Alert("Profile saved successfully!")
    /\ UNCHANGED <<searchVars, recVars, histVars, interviewVars, schoolChatVars>>
    /\ last' = [op |-> "handleProfileSubmit", name |-> "", dup |-> FALSE,
                profile |-> profile, overwrites |-> Overwrites(profile)]
    /\ UNCHANGED <<watchlist, watchlistView, schoolOptions, toggleBtn>>

\* a page reload: fresh state object, then loadFromLocalStorage and updateUIFromState
loadFromLocalStorage ==
    /\ studentProfile' = IF storage.studentProfile # NoItem
                         THEN ParseProfile(storage.studentProfile) ELSE NULL
    /\ watchlist' = IF storage.watchlist # NoItem
                    THEN ParseWatchlist(storage.watchlist) ELSE <<>>
    /\ watchlistView' = updateWatchlist(watchlist')
    /\ schoolOptions' = updateSchoolSelectors(watchlist')
    /\ toggleBtn' = [name |-> "", added |-> FALSE]
    /\ NoAlert
    /\ last' = [op |-> "loadFromLocalStorage", name |-> "", dup |-> FALSE]
    /\ UNCHANGED <<storage, searchVars, recVars, histVars, interviewVars, schoolChatVars>>

InitWatch ==
    /\ studentProfile = NULL
    /\ watchlist = <<>>
    /\ storage = [studentProfile |-> NoItem, watchlist |-> NoItem]
    /\ alertMsg = ""
    /\ watchlistView = <<>>
    /\ schoolOptions = updateSchoolSelectors(<<>>)
    /\ toggleBtn = [name |-> "", added |-> FALSE]

\* no chat session exists and none is stored
InitHistVars ==
    /\ chats = <<>>
    /\ currentChatId = 0
    /\ chatStorage = NoItem
    /\ chatPending = {}

\* nothing was asked yet
InitSchoolChatVars ==
    /\ detailRequests = {}
    /\ detailsSent = 0
    /\ chatMessages = <<>>
    /\ chatRequests = {}
    /\ chatsSent = 0

\* the state object of the page, with the interview areas still hidden
InitInterviewVars ==
    /\ interviewQuestions = <<>>
    /\ currentQuestionIndex = 0
    /\ selectedSchool = NULL
    /\ questionsList = [view |-> "hidden", items |-> 0]
    /\ recordingArea = "hidden"
    /\ currentQuestion = ""
    /\ transcriptionArea = [hidden |-> TRUE, text |-> <<>>, feedback |-> ""]
    /\ applicationResponse = "hidden"
    /\ interviewRequests = {}
    /\ interviewSent = 0
    /\ processed = {}

InitLast == last = [op |-> "init", name |-> "", dup |-> FALSE]

NextWatch ==
    \/ \E school \in Schools : addToWatchlist(school)
    \/ \E schoolName \in SchoolNames : removeFromWatchlist(schoolName)
    \/ \E schoolName \in SchoolNames, school \in Schools : toggleWatchlist(schoolName, school)
    \/ \E profile \in FullProfiles : handleProfileSubmit(profile)
    \/ loadFromLocalStorage


-----------------------------------------------------------------------------
(* Audio recording (README.md 1671..1748, the same code as                 *)
(* src/static/app.js 309..395)                                             *)

\* setTimeout(..., 60000), in seconds
AutoStopSeconds == 60
\* the clock is observed every TickSeconds seconds
TickSeconds == AutoStopSeconds \div 6

\* state.mediaRecorder && state.mediaRecorder.state === 'recording'
IsRecording ==
    mediaRecorder # 0 /\ recorders[mediaRecorder].state = "recording"

\* when the auto-stop timer set at the start of recorder id is due
Deadline(id) == recorders[id].started + AutoStopSeconds

\* stopRecording: acts on the recorder state.mediaRecorder refers to
stopRecordingBody(by) ==
    IF IsRecording
    THEN /\ recorders' = [recorders EXCEPT ![mediaRecorder] =
                             [@ EXCEPT !.state = "inactive", !.tracks = "stopped",
                                       !.stoppedBy = by]]
         /\ recordBtn' = "Start Recording"
    ELSE UNCHANGED <<recorders, recordBtn>>

\* click on the record button
toggleRecording ==
    /\ IF IsRecording
       THEN /\ stopRecordingBody("manual")
            /\ UNCHANGED pendingMedia
            /\ last' = [op |-> "stopRecording"]
       ELSE \* startRecording up to its await getUserMedia
            /\ Len(recorders) + pendingMedia < MaxRecordings
            /\ pendingMedia' = pendingMedia + 1
            /\ UNCHANGED <<recorders, recordBtn>>
            /\ last' = [op |-> "startRecording"]
    /\ UNCHANGED <<mediaRecorder, recordingStartTime, timers, now, micAlert>>

\* startRecording from the resolution of getUserMedia to its end
startRecordingGranted ==
    /\ pendingMedia > 0
    /\ pendingMedia' = pendingMedia - 1
    /\ recorders' = Append(recorders, [state |-> "recording", tracks |-> "live",
                                       started |-> now, stoppedBy |-> "none"])
    /\ mediaRecorder' = Len(recorders')
    /\ recordingStartTime' = now
    /\ recordBtn' = "Stop Recording"
    /\ timers' = timers \cup {mediaRecorder'}
    /\ last' = [op |-> "startRecordingGranted"]
    /\ UNCHANGED <<now, micAlert>>

\* getUserMedia rejects: the catch block of startRecording
startRecordingDenied ==
    /\ pendingMedia > 0
    /\ pendingMedia' = pendingMedia - 1
    /\ micAlert' = TRUE
    /\ last' = [op |-> "startRecordingDenied"]
    /\ UNCHANGED <<mediaRecorder, recorders, recordingStartTime, recordBtn, timers, now>>

\* the callback of the setTimeout of startRecording, set when recorder id started
autoStop(id) ==
    /\ id \in timers
    /\ now >= Deadline(id)
    /\ timers' = timers \ {id}
    /\ stopRecordingBody("auto")
    /\ last' = [op |-> "autoStop"]
    /\ UNCHANGED <<mediaRecorder, pendingMedia, recordingStartTime, now, micAlert>>

\* time passes; a timer that is due runs before the clock moves on
tick ==
    /\ now < MaxTime
    /\ \A id \in timers : now < Deadline(id)
    /\ LET due == {Deadline(id) : id \in timers} \cup {now + TickSeconds, MaxTime}
       IN now' = CHOOSE t \in due : \A u \in due : t <= u
    /\ last' = [op |-> "tick"]
    /\ UNCHANGED <<mediaRecorder, recorders, pendingMedia, recordingStartTime,
                   recordBtn, timers, micAlert>>

InitRecVars ==
    /\ mediaRecorder = 0
    /\ recorders = <<>>
    /\ pendingMedia = 0
    /\ recordingStartTime = 0
    /\ recordBtn = "Start Recording"
    /\ timers = {}
    /\ now = 0
    /\ micAlert = FALSE

-----------------------------------------------------------------------------
(* School search with mode selection, radius and load-more *)

SearchTypes == {"zip", "city", "state", "name"}
DefaultMiles == 10
\* positions the user may leave #milesSlider at
SliderValues == {25}

Digits == {"0", "1", "2", "3", "4", "5", "6", "7", "8", "9"}
Whitespace == {" "}
ZipLength == 5

RECURSIVE TrimStart(_)
TrimStart(text) ==
    IF text # <<>> /\ Head(text) \in Whitespace THEN TrimStart(Tail(text)) ELSE text

RECURSIVE TrimEnd(_)
TrimEnd(text) ==
    IF text # <<>> /\ text[Len(text)] \in Whitespace
    THEN TrimEnd(SubSeq(text, 1, Len(text) - 1)) ELSE text

\* a trim that removes nothing
TrimNothing(text) == text

\* String.prototype.trim
Trim(text) == TrimEnd(TrimStart(text))

\* /^\d{5}$/.test(text)
IsZip(text) == Len(text) = ZipLength /\ \A i \in 1..Len(text) : text[i] \in Digits

ZipText == <<"1", "0", "0", "0", "1">>
NameText == <<"O", "a", "k">>
\* what the user may have typed into #schoolSearchInput
TypedInputs == {<<>>, <<" ">>, ZipText, <<" ">> \o NameText \o <<" ">>}
\* textContent of the .example-chip elements
ChipTexts == {ZipText, NameText}

\* schools the backend may report
ResultSchools == {[name |-> AllNames[i], type |-> "Day"] : i \in 1..NumResults}
SeqsUpTo(S, n) == UNION {[1..k -> S] : k \in 0..n}
Pages == SeqsUpTo(ResultSchools, MaxPage)

\* the ways a fetch of /api/schools/search can end
Failures == {"transport", "nonjson", "rejected"}
\* a response: ok is "yes" for {success: true, ...}; list responses carry
\* schools, name responses carry school
ListResponses == [ok : {"yes"}, schools : Pages]
NameResponses == {[ok |-> "yes", schools |-> <<sch>>] : sch \in ResultSchools}
FailResponses == [ok : Failures, schools : {<<>>}]

\* error.message in the catch block of performSearch
SearchErrorMessage(ok) ==
    CASE ok = "transport" -> "Failed to fetch"
      [] ok = "nonjson" -> "Server returned an invalid response. Please try again."
      [] OTHER -> "Search failed"

\* every payload written as a list payload
StringifyDataAsList(searchType, resp) ==
    <<"{", "success", "true", "schools", "[">> \o StringifySchools(resp.schools)
        \o <<"]", "}">>

\* JSON.stringify(data) of a successful response
StringifyData(searchType, resp) ==
    IF searchType = "name"
    THEN <<"{", "success", "true", "school">> \o StringifySchools(resp.schools) \o <<"}">>
    ELSE <<"{", "success", "true", "schools", "[">> \o StringifySchools(resp.schools)
         \o <<"]", "}">>

NoButton == [id |-> 0, look |-> "none"]
\* cards are the names shown; looks says how each card is drawn; gen tells
\* the cards of one render from those of another
EmptyPanel == [view |-> "empty", cards |-> <<>>, looks |-> <<>>, gen |-> 0,
               error |-> "", btn |-> NoButton]
LoadingPanel == [EmptyPanel EXCEPT !.view = "loading"]
\* the error is shown on top of whatever the panel holds
ErrorPanelOverOld(msg) == [resultsPanel EXCEPT !.view = "error", !.error = msg]

\* resultsContainer.innerHTML = `<div class="error">Error: ...</div>`
ErrorPanel(msg) == [EmptyPanel EXCEPT !.view = "error", !.error = msg]
\* cards still referenced by a suspended loadSchoolDetails
GensInUse == {r.gen : r \in detailRequests}
FreshGen == CHOOSE i \in 1..(Cardinality(GensInUse) + 1) : i \notin GensInUse
\* createSchoolCard(school, false) for each school
Summaries(schools) == [i \in 1..Len(schools) |-> "summary"]

\* a detail card that is shown only in place of the loading notice
displaySchoolDetailsIfLoading(school) ==
    IF resultsPanel.view = "loading"
    THEN [EmptyPanel EXCEPT !.view = "details", !.cards = <<school.name>>,
                            !.looks = <<"expanded">>, !.gen = FreshGen]
    ELSE resultsPanel

\* displaySchoolDetails
displaySchoolDetails(school) ==
    [EmptyPanel EXCEPT !.view = "details", !.cards = <<school.name>>,
                       !.looks = <<"expanded">>, !.gen = FreshGen]

\* ids of load-more buttons still referenced by the page or by a suspended handler
ButtonsInUse == {resultsPanel.btn.id} \cup {r.btn : r \in network} \cup hideTimers
FreshButton == CHOOSE i \in 1..(Cardinality(ButtonsInUse) + 1) : i \notin ButtonsInUse
FreshRequest ==
    CHOOSE i \in 1..(Cardinality(network) + 1) : i \notin {r.id : r \in network}

\* displaySchoolList(schools, location, distanceText), reading
\* state.allSchoolsLoaded; the header text is left out of the panel
displaySchoolList(schools, allLoaded) ==
    IF Len(schools) = 0
    THEN [EmptyPanel EXCEPT !.view = "none_found"]
    ELSE [EmptyPanel EXCEPT !.view = "list",
                            !.cards = Names(schools),
                            !.looks = Summaries(schools),
                            !.gen = FreshGen,
                            !.btn = IF ~allLoaded
                                    THEN [id |-> FreshButton, look |-> "enabled"]
                                    ELSE NoButton]

\* a change of look that never reaches the page
SetButtonDetached(panel, b, look) == panel

\* a change of look of button b: visible only while b is the button in the page
SetButton(panel, b, look) ==
    IF panel.btn.id = b /\ b # 0
    THEN [panel EXCEPT !.btn.look = look]
    ELSE panel

\* only the school loaded last is excluded
ExcludeLastSchool(loaded) ==
    IF loaded = <<>> THEN <<>> ELSE <<loaded[Len(loaded)].name>>

\* exclude_schools of a load-more request
ExcludeSchools(loaded) == Names(loaded)

\* the new page replaces what was loaded
ReplaceByPage(loaded, newSchools) == newSchools

\* [...state.loadedSchools, ...newSchools]
AppendPage(loaded, newSchools) == loaded \o newSchools

\* the radio change handler
selectSearchType(type) ==
    /\ selectedType' = type
    /\ last' = [op |-> "selectSearchType"]
    /\ UNCHANGED <<currentSearchQuery, currentSearchType, currentMiles, loadedSchools,
                   allSchoolsLoaded, searchContext, resultsPanel, chatVisible,
                   network, hideTimers, searchesSent, moresSent, searchInput, watchVars, recVars, histVars, interviewVars, schoolChatVars>>

\* a performSearch that derives the search type from the query text
performSearchBodyByText(rawInput, searchType, slider, via) ==
    LET query == Trim(rawInput)
        type == IF IsZip(query) THEN "zip" ELSE "name"
        miles == IF type \in {"zip", "city"} THEN slider ELSE DefaultMiles
    IN
    IF query = <<>>
    THEN /\ last' = [op |-> "performSearch", via |-> via, sent |-> FALSE]
         /\ UNCHANGED <<currentSearchQuery, currentSearchType, currentMiles,
                        loadedSchools, allSchoolsLoaded, resultsPanel, network,
                        searchesSent>>
    ELSE /\ resultsPanel' = LoadingPanel
         /\ currentSearchQuery' = Obj(query)
         /\ currentSearchType' = type
         /\ currentMiles' = miles
         /\ loadedSchools' = <<>>
         /\ allSchoolsLoaded' = FALSE
         /\ searchesSent' = searchesSent + 1
         /\ network' = network \cup
                {[id |-> FreshRequest, kind |-> "search", epoch |-> searchesSent',
                  query |-> query,
                  search_type |-> type, miles |-> miles,
                  exclude_schools |-> <<>>, btn |-> 0]}
         /\ last' = [op |-> "performSearch", via |-> via, sent |-> TRUE]

\* performSearch up to its await fetch, with rawInput in #schoolSearchInput and
\* the slider at slider; searchType is the checked radio
performSearchBody(rawInput, searchType, slider, via) ==
    LET query == Trim(rawInput)
        miles == IF searchType \in {"zip", "city"} THEN slider ELSE DefaultMiles
    IN
    IF query = <<>>
    THEN /\ last' = [op |-> "performSearch", via |-> via, sent |-> FALSE]
         /\ UNCHANGED <<currentSearchQuery, currentSearchType, currentMiles,
                        loadedSchools, allSchoolsLoaded, resultsPanel, network,
                        searchesSent>>
    ELSE /\ resultsPanel' = LoadingPanel
         /\ currentSearchQuery' = Obj(query)
         /\ currentSearchType' = searchType
         /\ currentMiles' = miles
         /\ loadedSchools' = <<>>
         /\ allSchoolsLoaded' = FALSE
         /\ searchesSent' = searchesSent + 1
         /\ network' = network \cup
                {[id |-> FreshRequest, kind |-> "search", epoch |-> searchesSent',
                  query |-> query,
                  search_type |-> searchType, miles |-> miles,
                  exclude_schools |-> <<>>, btn |-> 0]}
         /\ last' = [op |-> "performSearch", via |-> via, sent |-> TRUE]

\* search button or Enter key
performSearch(rawInput, slider) ==
    /\ searchesSent < MaxSearches
    /\ performSearchBody(rawInput, selectedType, slider, "typed")
    /\ UNCHANGED <<selectedType, searchContext, chatVisible, hideTimers, moresSent,
                   searchInput, watchVars, recVars, histVars, interviewVars, schoolChatVars>>

\* click on an example chip
chipClick(chipText, slider) ==
    /\ searchesSent < MaxSearches
    /\ selectedType' = IF IsZip(chipText) THEN "zip" ELSE "name"
    /\ performSearchBody(chipText, selectedType', slider, "chip")
    /\ UNCHANGED <<searchContext, chatVisible, hideTimers, moresSent, searchInput, watchVars, recVars, histVars, interviewVars, schoolChatVars>>

\* a performSearch whose catch block also forgets the last payload
performSearchResponseForgetting(r, resp) ==
    /\ r \in network
    /\ r.kind = "search"
    /\ network' = network \ {r}
    /\ IF resp.ok # "yes"
       THEN /\ resultsPanel' = ErrorPanel(SearchErrorMessage(resp.ok))
            /\ searchContext' = <<>>
            /\ UNCHANGED <<loadedSchools, chatVisible>>
       ELSE /\ IF r.search_type = "name"
               THEN /\ resultsPanel' = displaySchoolDetails(resp.schools[1])
                    /\ UNCHANGED loadedSchools
               ELSE /\ loadedSchools' = resp.schools
                    /\ resultsPanel' =
                          displaySchoolList(loadedSchools', allSchoolsLoaded)
            /\ chatVisible' = TRUE
            /\ searchContext' = StringifyData(r.search_type, resp)
    /\ last' = [op |-> "performSearchResponse", ok |-> resp.ok, schools |-> resp.schools,
                hadCards |-> resultsPanel.cards # <<>>]
    /\ UNCHANGED <<selectedType, currentSearchQuery, currentSearchType, currentMiles,
                   allSchoolsLoaded, hideTimers, searchesSent, moresSent, searchInput, watchVars, recVars, histVars, interviewVars, schoolChatVars>>

\* performSearch from the arrival of the response to its end
performSearchResponse(r, resp) ==
    /\ r \in network
    /\ r.kind = "search"
    /\ network' = network \ {r}
    /\ IF resp.ok # "yes"
       THEN /\ resultsPanel' = ErrorPanel(SearchErrorMessage(resp.ok))
            /\ UNCHANGED <<loadedSchools, chatVisible, searchContext>>
       ELSE /\ IF r.search_type = "name"
               THEN /\ resultsPanel' = displaySchoolDetails(resp.schools[1])
                    /\ UNCHANGED loadedSchools
               ELSE /\ loadedSchools' = resp.schools
                    /\ resultsPanel' =
                          displaySchoolList(loadedSchools', allSchoolsLoaded)
            /\ chatVisible' = TRUE
            /\ searchContext' = StringifyData(r.search_type, resp)
    /\ last' = [op |-> "performSearchResponse", ok |-> resp.ok, schools |-> resp.schools,
                hadCards |-> resultsPanel.cards # <<>>]
    /\ UNCHANGED <<selectedType, currentSearchQuery, currentSearchType, currentMiles,
                   allSchoolsLoaded, hideTimers, searchesSent, moresSent, searchInput, watchVars, recVars, histVars, interviewVars, schoolChatVars>>

\* click on the load-more button: loadMoreSchools up to its await fetch
loadMoreSchools ==
    /\ moresSent < MaxMores
    /\ moresSent' = moresSent + 1
    /\ resultsPanel.btn.look \in {"enabled", "error"}
    /\ resultsPanel' = SetButton(resultsPanel, resultsPanel.btn.id, "loading")
    /\ network' = network \cup
          {[id |-> FreshRequest, kind |-> "more", epoch |-> searchesSent,
            query |-> currentSearchQuery[1],
            search_type |-> currentSearchType, miles |-> currentMiles,
            exclude_schools |-> ExcludeSchools(loadedSchools),
            btn |-> resultsPanel.btn.id]}
    /\ last' = [op |-> "loadMoreSchools"]
    /\ UNCHANGED <<selectedType, currentSearchQuery, currentSearchType, currentMiles,
                   loadedSchools, allSchoolsLoaded, searchContext, chatVisible,
                   hideTimers, searchesSent, searchInput, watchVars, recVars, histVars, interviewVars, schoolChatVars>>

\* loadMoreSchools from the arrival of the response to its end
loadMoreSchoolsResponse(r, resp) ==
    /\ r \in network
    /\ r.kind = "more"
    /\ network' = network \ {r}
    /\ IF resp.ok # "yes"
       THEN /\ resultsPanel' = SetButton(resultsPanel, r.btn, "error")
            /\ UNCHANGED <<loadedSchools, allSchoolsLoaded, hideTimers>>
       ELSE IF Len(resp.schools) = 0
       THEN /\ allSchoolsLoaded' = TRUE
            /\ resultsPanel' = SetButton(resultsPanel, r.btn, "nomore")
            /\ hideTimers' = hideTimers \cup {r.btn}
            /\ UNCHANGED loadedSchools
       ELSE /\ Len(loadedSchools) + Len(resp.schools) <= MaxLoaded
            /\ loadedSchools' = AppendPage(loadedSchools, resp.schools)
            /\ resultsPanel' =
                  displaySchoolList(loadedSchools', allSchoolsLoaded)
            /\ UNCHANGED <<allSchoolsLoaded, hideTimers>>
    /\ last' = [op |-> "loadMoreSchoolsResponse", ok |-> resp.ok, schools |-> resp.schools]
    /\ UNCHANGED <<selectedType, currentSearchQuery, currentSearchType, currentMiles,
                   searchContext, chatVisible, searchesSent, moresSent, searchInput, watchVars, recVars, histVars, interviewVars, schoolChatVars>>

\* the 2000 ms timer set when a page came back empty
hideLoadMoreButton(b) ==
    /\ b \in hideTimers
    /\ \A r \in network : r.btn # b
    /\ hideTimers' = hideTimers \ {b}
    /\ resultsPanel' = SetButton(resultsPanel, b, "hidden")
    /\ last' = [op |-> "hideLoadMoreButton"]
    /\ UNCHANGED <<selectedType, currentSearchQuery, currentSearchType, currentMiles,
                   loadedSchools, allSchoolsLoaded, searchContext, chatVisible,
                   network, searchesSent, moresSent, searchInput, watchVars, recVars, histVars, interviewVars, schoolChatVars>>

InitSearchVars ==
    /\ selectedType \in SearchTypes
    /\ currentSearchQuery = NULL
    /\ currentSearchType = ""
    /\ currentMiles = DefaultMiles
    /\ loadedSchools = <<>>
    /\ allSchoolsLoaded = FALSE
    /\ searchContext = <<>>
    /\ resultsPanel = EmptyPanel
    /\ chatVisible = FALSE
    /\ network = {}
    /\ hideTimers = {}
    /\ searchesSent = 0
    /\ moresSent = 0
    /\ searchInput = <<>>

InitSearch ==
    /\ InitSearchVars
    /\ InitWatch
    /\ InitRecVars
    /\ InitHistVars
    /\ InitSchoolChatVars
    /\ InitInterviewVars
    /\ last = [op |-> "init"]

NextSearch ==
    \/ \E type \in SearchTypes : selectSearchType(type)
    \/ \E rawInput \in TypedInputs, slider \in SliderValues : performSearch(rawInput, slider)
    \/ \E chipText \in ChipTexts, slider \in SliderValues : chipClick(chipText, slider)
    \/ \E r \in network :
          \E resp \in (IF r.search_type = "name" THEN NameResponses ELSE ListResponses)
                      \cup FailResponses :
              performSearchResponse(r, resp)
    \/ loadMoreSchools
    \/ \E r \in network : \E resp \in ListResponses \cup FailResponses :
          loadMoreSchoolsResponse(r, resp)
    \/ \E b \in hideTimers : hideLoadMoreButton(b)

SpecSearch == InitSearch /\ [][NextSearch]_vars

-----------------------------------------------------------------------------
(* School details and school chat (README.md 1357..1486) *)

\* the ways a fetch of /api/schools/details or /api/schools/chat can end
DetailResponses == NameResponses \cup FailResponses
ChatAnswers == {<<"ok">>}
ChatResponses == [ok : {"yes"}, response : ChatAnswers]
                     \cup [ok : Failures, response : {<<>>}]
\* what the user may have typed into #chatInput
ChatInputs == {<<>>, <<" ">>, <<" ", "h", "i">>}
ThinkingText == <<"Thinking...">>

\* error.message in the catch block of sendChatMessage
ChatErrorMessage(ok) ==
    CASE ok = "transport" -> <<"Error: ", "Failed to fetch">>
      [] ok = "nonjson" -> <<"Error: ", "Unexpected token">>
      [] OTHER -> <<"Error: ", "Chat failed">>

\* document.querySelector(`[data-school-name="${schoolName}"]`): the first match
FirstCard(schoolName) ==
    CHOOSE j \in 1..Len(resultsPanel.cards) :
        /\ resultsPanel.cards[j] = schoolName
        /\ \A k \in 1..(j - 1) : resultsPanel.cards[k] # schoolName

FreshDetailRequest ==
    CHOOSE i \in 1..(Cardinality(detailRequests) + 1) : i \notin {r.id : r \in detailRequests}
FreshChatRequest ==
    CHOOSE i \in 1..(Cardinality(chatRequests) + 1) : i \notin {r.id : r \in chatRequests}

\* the card held by the suspended handler r is still in the page
CardAttached(r) == r.gen = resultsPanel.gen /\ ~r.replaced

\* click on the info button of card i: loadSchoolDetails up to its await fetch
loadSchoolDetails(i) ==
    /\ detailsSent < MaxDetails
    /\ resultsPanel.view = "list"
    /\ i \in 1..Len(resultsPanel.cards)
    /\ resultsPanel.looks[i] \in {"summary", "failed"}
    /\ LET schoolName == resultsPanel.cards[i]
           j == FirstCard(schoolName)
       IN /\ resultsPanel' = [resultsPanel EXCEPT !.looks[j] = "loading"]
          /\ detailRequests' = detailRequests \cup
                {[id |-> FreshDetailRequest, school_name |-> schoolName,
                  gen |-> resultsPanel.gen, card |-> j,
                  original |-> resultsPanel.looks[j], replaced |-> FALSE]}
    /\ detailsSent' = detailsSent + 1
    /\ last' = [op |-> "loadSchoolDetails"]
    /\ UNCHANGED <<selectedType, currentSearchQuery, currentSearchType, currentMiles,
                   loadedSchools, allSchoolsLoaded, searchContext, chatVisible, network,
                   hideTimers, searchesSent, moresSent, searchInput,
                   chatMessages, chatRequests, chatsSent, watchVars, recVars, histVars, interviewVars>>

\* loadSchoolDetails from the arrival of the response to its end; replaceChild
\* throws when the card is no longer in the page, which ends in the catch block
loadSchoolDetailsResponse(r, resp) ==
    /\ r \in detailRequests
    /\ IF resp.ok = "yes" /\ CardAttached(r)
       THEN /\ resultsPanel' = [resultsPanel EXCEPT !.cards[r.card] = resp.schools[1].name,
                                                    !.looks[r.card] = "expanded"]
            /\ searchContext' = StringifySchools(resp.schools)
            /\ detailRequests' =
                  {IF q.gen = r.gen /\ q.card = r.card THEN [q EXCEPT !.replaced = TRUE]
                   ELSE q : q \in detailRequests \ {r}}
       ELSE /\ resultsPanel' =
                  IF CardAttached(r)
                  THEN [resultsPanel EXCEPT !.looks[r.card] =
                           IF r.original = "loading" THEN "loading" ELSE "failed"]
                  ELSE resultsPanel
            /\ detailRequests' = detailRequests \ {r}
            /\ UNCHANGED searchContext
    /\ last' = [op |-> "loadSchoolDetailsResponse", ok |-> resp.ok, schools |-> resp.schools,
                applied |-> resp.ok = "yes" /\ CardAttached(r)]
    /\ UNCHANGED <<selectedType, currentSearchQuery, currentSearchType, currentMiles,
                   loadedSchools, allSchoolsLoaded, chatVisible, network,
                   hideTimers, searchesSent, moresSent, searchInput, detailsSent,
                   chatMessages, chatRequests, chatsSent, watchVars, recVars, histVars, interviewVars>>

\* appendChatMessage(role, content)
appendChatMessage(messages, role, content) ==
    Append(messages, [role |-> role, content |-> content])

\* removeLastAssistantMessage
removeLastAssistantMessage(messages) ==
    LET assistant == {i \in 1..Len(messages) : messages[i].role = "assistant"} IN
    IF assistant = {} THEN messages
    ELSE LET k == CHOOSE i \in assistant : \A j \in assistant : j <= i IN
         SubSeq(messages, 1, k - 1) \o SubSeq(messages, k + 1, Len(messages))

\* send button or Enter key in the chat box: sendChatMessage up to its await fetch
sendChatMessage(rawInput) ==
    /\ chatVisible
    /\ chatsSent < MaxChatsSent
    /\ LET message == Trim(rawInput) IN
       IF message = <<>>
       THEN /\ last' = [op |-> "sendChatMessage", sent |-> FALSE]
            /\ UNCHANGED <<chatMessages, chatRequests, chatsSent>>
       ELSE /\ chatMessages' =
                  appendChatMessage(appendChatMessage(chatMessages, "user", message),
                                    "assistant", ThinkingText)
            /\ chatRequests' = chatRequests \cup
                  {[id |-> FreshChatRequest, message |-> message,
                    context |-> searchContext]}
            /\ chatsSent' = chatsSent + 1
            /\ last' = [op |-> "sendChatMessage", sent |-> TRUE]
    /\ UNCHANGED <<searchVars, detailRequests, detailsSent, watchVars, recVars, histVars, interviewVars>>

\* sendChatMessage from the arrival of the response to its end
sendChatMessageResponse(r, resp) ==
    /\ r \in chatRequests
    /\ chatRequests' = chatRequests \ {r}
    /\ chatMessages' =
          CASE resp.ok = "yes" ->
                 appendChatMessage(removeLastAssistantMessage(chatMessages),
                                   "assistant", resp.response)
            [] resp.ok = "rejected" ->
                 \* removed once before the throw and once more in the catch block
                 appendChatMessage(
                     removeLastAssistantMessage(removeLastAssistantMessage(chatMessages)),
                     "assistant", ChatErrorMessage(resp.ok))
            [] OTHER ->
                 appendChatMessage(removeLastAssistantMessage(chatMessages),
                                   "assistant", ChatErrorMessage(resp.ok))
    /\ last' = [op |-> "sendChatMessageResponse", ok |-> resp.ok]
    /\ UNCHANGED <<searchVars, detailRequests, detailsSent, chatsSent,
                   watchVars, recVars, histVars, interviewVars>>

InitChat ==
    /\ InitSearchVars
    /\ selectedType = "zip"
    /\ InitWatch
    /\ InitRecVars
    /\ InitHistVars
    /\ InitSchoolChatVars
    /\ InitInterviewVars
    /\ last = [op |-> "init"]

\* requests sent so far
RequestsSent == searchesSent + moresSent + detailsSent + chatsSent

NextChat ==
    \/ /\ RequestsSent < MaxRequests
       /\ \E chipText \in ChipTexts, slider \in SliderValues : chipClick(chipText, slider)
    \/ \E r \in network :
          \E resp \in (IF r.search_type = "name" THEN NameResponses ELSE ListResponses)
                      \cup FailResponses :
              performSearchResponse(r, resp)
    \/ RequestsSent < MaxRequests /\ loadMoreSchools
    \/ \E r \in network : \E resp \in ListResponses \cup FailResponses :
          loadMoreSchoolsResponse(r, resp)
    \/ RequestsSent < MaxRequests /\ \E i \in 1..MaxLoaded : loadSchoolDetails(i)
    \/ \E r \in detailRequests : \E resp \in DetailResponses :
          loadSchoolDetailsResponse(r, resp)
    \/ RequestsSent < MaxRequests /\ \E rawInput \in ChatInputs : sendChatMessage(rawInput)
    \/ \E r \in chatRequests : \E resp \in ChatResponses : sendChatMessageResponse(r, resp)

SpecChat == InitChat /\ [][NextChat]_vars

-----------------------------------------------------------------------------
(* School search without mode selector (README.md 263..430) *)

QueryAlphabet == {"7", "x", " "}
\* every text of at most MaxQueryLen characters
QueryTexts == SeqsUpTo(QueryAlphabet, MaxQueryLen)

\* /\d{5}/.test(text), the pattern without its anchors
IsZipUnanchored(text) ==
    \E k \in 0..(Len(text) - ZipLength) : \A i \in 1..ZipLength : text[k + i] \in Digits

\* /^\d{5}$/.test(query)
IsZip2(query) == Len(query) = ZipLength /\ \A i \in 1..Len(query) : query[i] \in Digits

\* displaySchoolList(schools, zipCode) of this client: no load-more button
displaySchoolList2(schools) ==
    IF Len(schools) = 0
    THEN [EmptyPanel EXCEPT !.view = "none_found"]
    ELSE [EmptyPanel EXCEPT !.view = "list", !.cards = Names(schools),
                            !.looks = Summaries(schools), !.gen = FreshGen]

\* performSearch up to its await fetch
performSearch2Body(via) ==
    LET query == Trim(searchInput)
        isZip == IsZip2(query)
        searchType == IF isZip THEN "zip" ELSE "name"
    IN
    IF query = <<>>
    THEN /\ last' = [op |-> "performSearch2", via |-> via, sent |-> FALSE]
         /\ UNCHANGED <<resultsPanel, network, searchesSent>>
    ELSE /\ resultsPanel' = LoadingPanel
         /\ searchesSent' = searchesSent + 1
         /\ network' = network \cup
                {[id |-> FreshRequest, kind |-> "search", epoch |-> searchesSent',
                  query |-> query, search_type |-> searchType, miles |-> 0,
                  exclude_schools |-> <<>>, btn |-> 0]}
         /\ last' = [op |-> "performSearch2", via |-> via, sent |-> TRUE]

\* search button, Enter key or example chip
performSearch2 ==
    /\ searchesSent < MaxSearches
    /\ performSearch2Body("button")
    /\ UNCHANGED <<selectedType, currentSearchQuery, currentSearchType, currentMiles,
                   loadedSchools, allSchoolsLoaded, searchContext, chatVisible,
                   hideTimers, moresSent, searchInput, watchVars, recVars, histVars, interviewVars, schoolChatVars>>

\* the + / check button of a rendered card: toggleWatchlist, which ends with
\* performSearch() to refresh the view
toggleWatchlist2(i) ==
    /\ searchesSent < MaxSearches
    /\ i \in 1..Len(resultsPanel.cards)
    /\ LET school == [name |-> resultsPanel.cards[i], type |-> "Day"] IN
          /\ IF HasName(watchlist, school.name)
             THEN removeFromWatchlistBody(school.name)
             ELSE addToWatchlistBody(school)
          /\ UNCHANGED toggleBtn
    /\ performSearch2Body("toggle")
    /\ UNCHANGED <<selectedType, currentSearchQuery, currentSearchType, currentMiles,
                   loadedSchools, allSchoolsLoaded, searchContext, chatVisible,
                   hideTimers, moresSent, searchInput, recVars, histVars, interviewVars, schoolChatVars>>

\* performSearch from the arrival of the response to its end
performSearch2Response(r, resp) ==
    /\ r \in network
    /\ network' = network \ {r}
    /\ IF resp.ok # "yes"
       THEN /\ resultsPanel' = ErrorPanel(SearchErrorMessage(resp.ok))
            /\ UNCHANGED <<chatVisible, searchContext>>
       ELSE /\ resultsPanel' = IF r.search_type = "zip"
                               THEN displaySchoolList2(resp.schools)
                               ELSE displaySchoolDetails(resp.schools[1])
            /\ chatVisible' = TRUE
            /\ searchContext' = StringifyData(r.search_type, resp)
    /\ last' = [op |-> "performSearch2Response", ok |-> resp.ok, schools |-> resp.schools,
                search_type |-> r.search_type]
    /\ UNCHANGED <<selectedType, currentSearchQuery, currentSearchType, currentMiles,
                   loadedSchools, allSchoolsLoaded, hideTimers, searchesSent, moresSent,
                   searchInput, watchVars, recVars, histVars, interviewVars, schoolChatVars>>

\* the user has typed any text into the search box
InitSearch2 ==
    /\ InitWatch
    /\ InitRecVars
    /\ InitHistVars
    /\ InitSchoolChatVars
    /\ InitInterviewVars
    /\ selectedType = ""
    /\ currentSearchQuery = NULL
    /\ currentSearchType = ""
    /\ currentMiles = 0
    /\ loadedSchools = <<>>
    /\ allSchoolsLoaded = FALSE
    /\ searchContext = <<>>
    /\ resultsPanel = EmptyPanel
    /\ chatVisible = FALSE
    /\ network = {}
    /\ hideTimers = {}
    /\ searchesSent = 0
    /\ moresSent = 0
    /\ searchInput \in QueryTexts
    /\ last = [op |-> "init"]

NextSearch2 ==
    \/ performSearch2
    \/ \E i \in 1..MaxPage : toggleWatchlist2(i)
    \/ \E r \in network :
          \E resp \in (IF r.search_type = "name" THEN NameResponses ELSE ListResponses)
                      \cup FailResponses :
              performSearch2Response(r, resp)

SpecSearch2 == InitSearch2 /\ [][NextSearch2]_vars

-----------------------------------------------------------------------------
(* Chat history of the chat client (README.md 13..18). Its script is not   *)
(* among the sources; the sessions and their persistence follow the        *)
(* description of the chat session record and of the persisted keys.       *)

MessageTexts == {"hi"}
ReplyTexts == {"ok"}

\* a number as JSON text, and back
NumberText(n) == ToString(n)
TextNumber(token) == CHOOSE n \in 0..(MaxTime + MaxChats) : ToString(n) = token

RECURSIVE StringifyMessages(_)
StringifyMessages(messages) ==
    IF messages = <<>> THEN <<>>
    ELSE <<"{", Head(messages).role, Head(messages).content, "}">>
         \o StringifyMessages(Tail(messages))

RECURSIVE StringifySessions(_)
StringifySessions(sessions) ==
    IF sessions = <<>> THEN <<>>
    ELSE <<"{", NumberText(Head(sessions).id), Head(sessions).title,
           NumberText(Head(sessions).createdAt), "[">>
         \o StringifyMessages(Head(sessions).messages) \o <<"]", "}">>
         \o StringifySessions(Tail(sessions))

\* JSON.stringify of the chat-sessions array
StringifyChats(sessions) == <<"[">> \o StringifySessions(sessions) \o <<"]">>

RECURSIVE ParseMessages(_)
\* the messages at the head of tokens, up to the closing bracket, and what follows it
ParseMessages(tokens) ==
    IF Head(tokens) = "]"
    THEN [messages |-> <<>>, rest |-> Tail(tokens)]
    ELSE LET more == ParseMessages(SubSeq(tokens, 5, Len(tokens))) IN
         [messages |-> <<[role |-> tokens[2], content |-> tokens[3]]>> \o more.messages,
          rest |-> more.rest]

\* a chat-sessions array whose sessions come out in reverse order
RECURSIVE ParseSessionsReversed(_)
ParseSessionsReversed(tokens) ==
    IF Head(tokens) = "]" THEN <<>>
    ELSE LET parsed == ParseMessages(SubSeq(tokens, 6, Len(tokens))) IN
         ParseSessionsReversed(Tail(parsed.rest))
         \o <<[id |-> TextNumber(tokens[2]), title |-> tokens[3],
               createdAt |-> TextNumber(tokens[4]), messages |-> parsed.messages]>>

RECURSIVE ParseSessions(_)
ParseSessions(tokens) ==
    IF Head(tokens) = "]" THEN <<>>
    ELSE LET parsed == ParseMessages(SubSeq(tokens, 6, Len(tokens))) IN
         <<[id |-> TextNumber(tokens[2]), title |-> tokens[3],
            createdAt |-> TextNumber(tokens[4]), messages |-> parsed.messages]>>
         \o ParseSessions(Tail(parsed.rest))

\* JSON.parse of the stored chat-sessions array
ParseChats(tokens) == ParseSessions(Tail(tokens))

ChatIndex(id) == CHOOSE i \in 1..Len(chats) : chats[i].id = id
HasChat(id) == \E i \in 1..Len(chats) : chats[i].id = id

\* message appended to the session id, then the sessions are saved
AppendToChat(id, message) ==
    /\ chats' = [chats EXCEPT ![ChatIndex(id)].messages = Append(@, message)]
    /\ chatStorage' = StringifyChats(chats')

\* "new chat": a session is put in front of the list and saved
newChat ==
    /\ Len(chats) < MaxChats
    /\ chats' = <<[id |-> Len(chats) + 1, title |-> "New Chat", createdAt |-> now,
                   messages |-> <<>>]>> \o chats
    /\ currentChatId' = Len(chats) + 1
    /\ chatStorage' = StringifyChats(chats')
    /\ last' = [op |-> "newChat"]
    /\ UNCHANGED <<chatPending, watchVars, searchVars, recVars, interviewVars, schoolChatVars>>

\* click on a session of the history panel
selectChat(id) ==
    /\ HasChat(id)
    /\ currentChatId' = id
    /\ last' = [op |-> "selectChat"]
    /\ UNCHANGED <<chats, chatStorage, chatPending, watchVars, searchVars, recVars, interviewVars, schoolChatVars>>

\* the user sends a message in the current session: POST /chat
sendMessage(text) ==
    /\ currentChatId # 0
    /\ Len(chats[ChatIndex(currentChatId)].messages) < MaxMessages
    /\ currentChatId \notin chatPending
    /\ AppendToChat(currentChatId, [role |-> "user", content |-> text])
    /\ chatPending' = chatPending \cup {currentChatId}
    /\ last' = [op |-> "sendMessage"]
    /\ UNCHANGED <<currentChatId, watchVars, searchVars, recVars, interviewVars, schoolChatVars>>

\* the answer ({content}) or the failure of POST /chat arrives
receiveReply(id, text) ==
    /\ id \in chatPending
    /\ chatPending' = chatPending \ {id}
    /\ AppendToChat(id, [role |-> "assistant", content |-> text])
    /\ last' = [op |-> "receiveReply"]
    /\ UNCHANGED <<currentChatId, watchVars, searchVars, recVars, interviewVars, schoolChatVars>>

\* page reload: the sessions are read back from browser storage
reloadChats ==
    /\ chats' = IF chatStorage # NoItem THEN ParseChats(chatStorage) ELSE <<>>
    /\ currentChatId' = IF chats' = <<>> THEN 0 ELSE chats'[1].id
    /\ chatPending' = {}
    /\ last' = [op |-> "reloadChats"]
    /\ UNCHANGED <<chatStorage, watchVars, searchVars, recVars, interviewVars, schoolChatVars>>

\* time passes between the actions of the user; the clock is read only
\* when a session is created
tickChat ==
    /\ Len(chats) < MaxChats
    /\ tick
    /\ UNCHANGED <<histVars, interviewVars, watchVars, searchVars, schoolChatVars>>

InitW ==
    /\ InitWatch
    /\ InitSearchVars
    /\ selectedType = "zip"
    /\ InitRecVars
    /\ InitHistVars
    /\ InitSchoolChatVars
    /\ InitInterviewVars
    /\ InitLast

InitRec ==
    /\ InitRecVars
    /\ InitHistVars
    /\ InitSchoolChatVars
    /\ InitInterviewVars
    /\ InitWatch
    /\ InitSearchVars
    /\ selectedType = "zip"
    /\ last = [op |-> "init"]

\* the recording feature with everything else at rest
recordButtonClick == toggleRecording /\ UNCHANGED <<watchVars, searchVars, histVars, interviewVars, schoolChatVars>>
microphoneGranted == startRecordingGranted /\ UNCHANGED <<watchVars, searchVars, histVars, interviewVars, schoolChatVars>>
microphoneDenied == startRecordingDenied /\ UNCHANGED <<watchVars, searchVars, histVars, interviewVars, schoolChatVars>>
autoStopTimer(id) == autoStop(id) /\ UNCHANGED <<watchVars, searchVars, histVars, interviewVars, schoolChatVars>>
tickRec == tick /\ UNCHANGED <<watchVars, searchVars, histVars, interviewVars, schoolChatVars>>

NextRec ==
    \/ recordButtonClick
    \/ microphoneGranted
    \/ microphoneDenied
    \/ \E id \in timers : autoStopTimer(id)
    \/ tickRec

InitHist ==
    /\ InitHistVars
    /\ InitSchoolChatVars
    /\ InitInterviewVars
    /\ InitWatch
    /\ InitSearchVars
    /\ selectedType = "zip"
    /\ InitRecVars
    /\ last = [op |-> "init"]

NextHist ==
    \/ newChat
    \/ \E id \in 1..MaxChats : selectChat(id)
    \/ \E text \in MessageTexts : sendMessage(text)
    \/ \E id \in chatPending, text \in ReplyTexts : receiveReply(id, text)
    \/ reloadChats
    \/ tickChat

SpecHist == InitHist /\ [][NextHist]_vars

SpecRec == InitRec /\ [][NextRec]_vars

SpecWatch == InitW /\ [][NextWatch]_vars

\* the profile form, with any subset of its controls submitting a value
NextProfile ==
    \/ \E profile \in Profiles : handleProfileSubmit(profile)
    \/ \E school \in Schools : addToWatchlist(school)
    \/ \E schoolName \in SchoolNames : removeFromWatchlist(schoolName)
    \/ loadFromLocalStorage

InitProfile == InitW

SpecProfile == InitProfile /\ [][NextProfile]_vars

-----------------------------------------------------------------------------
(* Application and interview sections (README.md 1487..1802)               *)

MaxQuestions == 2       \* longest question list one response carries
MaxAsked == 3           \* analyze and generate requests sent in one run

QuestionTexts == {"Q1", "Q2"}
\* data.questions of a /api/interview/generate response, the empty list included
QuestionLists == SeqsUpTo([question : QuestionTexts], MaxQuestions)
GenerateResponses == [ok : {"yes"}, questions : QuestionLists]
                         \cup [ok : Failures, questions : {<<>>}]
TranscriptionTexts == {"um"}
TranscribeResponses == [ok : {"yes"}, transcription : TranscriptionTexts]
                           \cup [ok : Failures, transcription : {""}]
\* the outcome of an analyze or a feedback request
PlainResponses == [ok : {"yes"} \cup Failures]
\* what the user may have typed into #applicationQuestion
QuestionInputs == {<<>>, <<" ">>, <<" ", "w", "h", "y">>}

\* the values a dropdown offers
OptionValues(options) == {options[i].value : i \in 1..Len(options)}

\* state.watchlist.find(s => s.name === schoolName)
FindSchool(schoolName) ==
    IF HasName(watchlist, schoolName)
    THEN Obj(watchlist[CHOOSE i \in 1..Len(watchlist) :
                          /\ watchlist[i].name = schoolName
                          /\ \A j \in 1..(i - 1) : watchlist[j].name # schoolName])
    ELSE NULL

\* JSON.stringify of a school or of null
StringifySchool(school) ==
    IF school = NULL THEN <<"null">> ELSE StringifySchools(school)

\* error.message in the catch blocks of these sections
InterviewErrorMessage(ok, fallback) ==
    CASE ok = "transport" -> "Failed to fetch"
      [] ok = "nonjson" -> "Unexpected token"
      [] OTHER -> fallback

\* the fields of a request that its kind does not use; a question is a text
\* (a sequence), the question of an interview a text of one token
BlankRequest ==
    [id |-> 0, kind |-> "", recording |-> 0, school_name |-> "",
     school_context |-> <<>>, question |-> <<>>, student_profile |-> NULL,
     transcription |-> "", schoolData |-> NULL, asked |-> ""]

FreshInterviewRequest == interviewSent + 1

\* a feedback request that carries the placeholder of the transcription area
TranscriptionSentPlaceholder(data) == "Transcribing audio..."

\* the text a feedback request carries for a transcribe response
TranscriptionSent(data) == data.transcription

\* the element of state.interviewQuestions at index, counted from 0
QuestionAt(questions, index) ==
    IF index \in 0..(Len(questions) - 1) THEN questions[index + 1].question ELSE Absent

NoLoad == [index |-> -1, length |-> -1]

\* loadQuestion(index) with state.interviewQuestions = questions: reading
\* .question of a missing element throws before anything is changed
loadQuestion(questions, index) ==
    IF QuestionAt(questions, index) # Absent
    THEN /\ currentQuestion' = QuestionAt(questions, index)
         /\ transcriptionArea' = [transcriptionArea EXCEPT !.hidden = TRUE]
         /\ recordBtn' = "Start Recording"       \* resetRecorder
    ELSE UNCHANGED <<currentQuestion, transcriptionArea, recordBtn>>

\* click on #analyzeQuestionBtn: analyzeAndGenerateResponse up to its await fetch
analyzeAndGenerateResponse(schoolName, rawQuestion) ==
    /\ IF studentProfile = NULL
       THEN /\ Alert("Please create a student profile first!")
            /\ UNCHANGED <<applicationResponse, interviewRequests, interviewSent>>
       ELSE IF schoolName = "" \/ Trim(rawQuestion) = <<>>
       THEN /\ Alert("Please select a school and enter a question")
            /\ UNCHANGED <<applicationResponse, interviewRequests, interviewSent>>
       ELSE /\ NoAlert
            /\ applicationResponse' = "loading"
            /\ interviewRequests' = interviewRequests \cup
                  {[BlankRequest EXCEPT !.id = FreshInterviewRequest,
                       !.kind = "analyze", !.school_name = schoolName,
                       !.school_context = StringifySchool(FindSchool(schoolName)),
                       !.question = Trim(rawQuestion),
                       !.student_profile = studentProfile]}
            /\ interviewSent' = interviewSent + 1
    /\ last' = [op |-> "analyzeAndGenerateResponse", schoolName |-> schoolName,
                question |-> Trim(rawQuestion), load |-> NoLoad]
    /\ UNCHANGED <<studentProfile, watchlist, storage, watchlistView, schoolOptions,
                   toggleBtn, interviewQuestions, currentQuestionIndex, selectedSchool,
                   questionsList, recordingArea, currentQuestion, transcriptionArea,
                   processed, searchVars, recVars, histVars, schoolChatVars>>

\* analyzeAndGenerateResponse from the arrival of the response
analyzeResponse(r, resp) ==
    /\ r \in interviewRequests /\ r.kind = "analyze"
    /\ interviewRequests' = interviewRequests \ {r}
    /\ applicationResponse' = IF resp.ok = "yes" THEN "analysis" ELSE "error"
    /\ last' = [op |-> "analyzeResponse", ok |-> resp.ok, load |-> NoLoad]
    /\ UNCHANGED <<interviewQuestions, currentQuestionIndex, selectedSchool,
                   questionsList, recordingArea, currentQuestion, transcriptionArea,
                   interviewSent, processed,
                   watchVars, searchVars, recVars, histVars, schoolChatVars>>

\* click on #generateQuestionsBtn: generateInterviewQuestions up to its await fetch
generateInterviewQuestions(schoolName) ==
    /\ IF studentProfile = NULL
       THEN /\ Alert("Please create a student profile first!")
            /\ UNCHANGED <<questionsList, interviewRequests, interviewSent>>
       ELSE IF schoolName = ""
       THEN /\ Alert("Please select a school")
            /\ UNCHANGED <<questionsList, interviewRequests, interviewSent>>
       ELSE /\ NoAlert
            /\ questionsList' = [view |-> "loading", items |-> 0]
            /\ interviewRequests' = interviewRequests \cup
                  {[BlankRequest EXCEPT !.id = FreshInterviewRequest,
                       !.kind = "generate", !.school_name = schoolName,
                       !.school_context = StringifySchool(FindSchool(schoolName)),
                       !.student_profile = studentProfile,
                       !.schoolData = FindSchool(schoolName)]}
            /\ interviewSent' = interviewSent + 1
    /\ last' = [op |-> "generateInterviewQuestions", schoolName |-> schoolName,
                load |-> NoLoad]
    /\ UNCHANGED <<studentProfile, watchlist, storage, watchlistView, schoolOptions,
                   toggleBtn, interviewQuestions, currentQuestionIndex, selectedSchool,
                   recordingArea, currentQuestion, transcriptionArea,
                   applicationResponse, processed,
                   searchVars, recVars, histVars, schoolChatVars>>

\* generateInterviewQuestions from the arrival of the response: with an empty
\* list loadQuestion(0) throws inside the try block, after the state is set
generateInterviewQuestionsResponse(r, resp) ==
    /\ r \in interviewRequests /\ r.kind = "generate"
    /\ interviewRequests' = interviewRequests \ {r}
    /\ IF resp.ok = "yes"
       THEN /\ interviewQuestions' = resp.questions
            /\ currentQuestionIndex' = 0
            /\ selectedSchool' = r.schoolData
            /\ recordingArea' = "shown"
            /\ loadQuestion(resp.questions, 0)
            /\ questionsList' =
                  IF resp.questions # <<>>
                  THEN [view |-> "items", items |-> Len(resp.questions)]
                  ELSE [view |-> "error", items |-> 0]
            /\ last' = [op |-> "generateInterviewQuestionsResponse", ok |-> resp.ok,
                        load |-> [index |-> 0, length |-> Len(resp.questions)]]
       ELSE /\ questionsList' = [view |-> "error", items |-> 0]
            /\ last' = [op |-> "generateInterviewQuestionsResponse", ok |-> resp.ok,
                        load |-> NoLoad]
            /\ UNCHANGED <<interviewQuestions, currentQuestionIndex, selectedSchool,
                           recordingArea, currentQuestion, transcriptionArea, recordBtn>>
    /\ UNCHANGED <<applicationResponse, interviewSent, processed,
                   mediaRecorder, recorders, pendingMedia, recordingStartTime,
                   timers, now, micAlert,
                   watchVars, searchVars, histVars, schoolChatVars>>

\* click on question index of #questionsList
startPracticing(index) ==
    /\ questionsList.view = "items"
    /\ index \in 0..(questionsList.items - 1)
    /\ currentQuestionIndex' = index
    /\ loadQuestion(interviewQuestions, index)
    /\ last' = [op |-> "startPracticing",
                load |-> [index |-> index, length |-> Len(interviewQuestions)]]
    /\ UNCHANGED <<interviewQuestions, selectedSchool, questionsList, recordingArea,
                   applicationResponse, interviewRequests, interviewSent, processed,
                   mediaRecorder, recorders, pendingMedia, recordingStartTime,
                   timers, now, micAlert,
                   watchVars, searchVars, histVars, schoolChatVars>>

\* click on #nextQuestionBtn
loadNextQuestion ==
    /\ recordingArea = "shown"
    /\ currentQuestionIndex' =
          IF currentQuestionIndex + 1 >= Len(interviewQuestions)
          THEN 0 ELSE currentQuestionIndex + 1
    /\ loadQuestion(interviewQuestions, currentQuestionIndex')
    /\ last' = [op |-> "loadNextQuestion",
                load |-> [index |-> currentQuestionIndex',
                          length |-> Len(interviewQuestions)]]
    /\ UNCHANGED <<interviewQuestions, selectedSchool, questionsList, recordingArea,
                   applicationResponse, interviewRequests, interviewSent, processed,
                   mediaRecorder, recorders, pendingMedia, recordingStartTime,
                   timers, now, micAlert,
                   watchVars, searchVars, histVars, schoolChatVars>>

\* the onstop event of recorder id: processRecording up to its first await
processRecording(id) ==
    /\ id \in 1..Len(recorders)
    /\ recorders[id].state = "inactive"
    /\ id \notin processed
    /\ processed' = processed \cup {id}
    /\ transcriptionArea' = [hidden |-> FALSE, text |-> <<"Transcribing audio...">>,
                             feedback |-> "Analyzing response..."]
    /\ interviewRequests' = interviewRequests \cup
          {[BlankRequest EXCEPT !.id = FreshInterviewRequest,
               !.kind = "transcribe", !.recording = id,
               \* not sent: the question on display when the recording ended
               !.asked = QuestionAt(interviewQuestions, currentQuestionIndex)]}
    /\ interviewSent' = interviewSent + 1
    /\ last' = [op |-> "processRecording", recording |-> id, load |-> NoLoad]
    /\ UNCHANGED <<interviewQuestions, currentQuestionIndex, selectedSchool,
                   questionsList, recordingArea, currentQuestion, applicationResponse,
                   watchVars, searchVars, recVars, histVars, schoolChatVars>>

\* processRecording from the arrival of the transcribe response to the
\* second await (the feedback request) or to the end of the catch block
transcribeResponse(r, resp) ==
    /\ r \in interviewRequests /\ r.kind = "transcribe"
    /\ IF resp.ok # "yes"
       THEN /\ transcriptionArea' =
                  [transcriptionArea EXCEPT
                      !.text = <<"Error: ", InterviewErrorMessage(resp.ok, "Transcription failed")>>,
                      !.feedback = "Could not generate feedback."]
            /\ interviewRequests' = interviewRequests \ {r}
            /\ UNCHANGED interviewSent
       ELSE IF QuestionAt(interviewQuestions, currentQuestionIndex) = Absent
       THEN \* currentQuestion is undefined: currentQuestion.question throws
            /\ transcriptionArea' =
                  [transcriptionArea EXCEPT
                      !.text = <<"Error: ", "Cannot read properties of undefined">>,
                      !.feedback = "Could not generate feedback."]
            /\ interviewRequests' = interviewRequests \ {r}
            /\ UNCHANGED interviewSent
       ELSE /\ transcriptionArea' =
                  [transcriptionArea EXCEPT !.text = <<resp.transcription>>]
            /\ interviewRequests' = (interviewRequests \ {r}) \cup
                  {[BlankRequest EXCEPT !.id = FreshInterviewRequest,
                       !.kind = "feedback", !.recording = r.recording,
                       !.question = <<QuestionAt(interviewQuestions, currentQuestionIndex)>>,
                       !.school_context = StringifySchool(selectedSchool),
                       !.student_profile = studentProfile,
                       !.transcription = TranscriptionSent(resp),
                       !.asked = r.asked]}
            /\ interviewSent' = interviewSent + 1
    /\ last' = [op |-> "transcribeResponse", ok |-> resp.ok, recording |-> r.recording,
                transcription |-> resp.transcription, load |-> NoLoad]
    /\ UNCHANGED <<interviewQuestions, currentQuestionIndex, selectedSchool,
                   questionsList, recordingArea, currentQuestion, applicationResponse,
                   processed,
                   watchVars, searchVars, recVars, histVars, schoolChatVars>>

\* processRecording from the arrival of the feedback response
feedbackResponse(r, resp) ==
    /\ r \in interviewRequests /\ r.kind = "feedback"
    /\ interviewRequests' = interviewRequests \ {r}
    /\ transcriptionArea' =
          IF resp.ok = "yes"
          THEN [transcriptionArea EXCEPT !.feedback = "feedback"]
          ELSE [transcriptionArea EXCEPT
                   !.text = <<"Error: ", InterviewErrorMessage(resp.ok, "Feedback generation failed")>>,
                   !.feedback = "Could not generate feedback."]
    /\ last' = [op |-> "feedbackResponse", ok |-> resp.ok, recording |-> r.recording,
                load |-> NoLoad]
    /\ UNCHANGED <<interviewQuestions, currentQuestionIndex, selectedSchool,
                   questionsList, recordingArea, currentQuestion, applicationResponse,
                   interviewSent, processed,
                   watchVars, searchVars, recVars, histVars, schoolChatVars>>

\* the profile and the school the interview runs are made with
InterviewProfiles == {p \in FullProfiles : \A field \in ProfileFields : p[1][field] # ""}
InterviewSchools == {school \in Schools : school.name = AllNames[1] /\ school.type = "Day"}

InitInterview ==
    /\ InitWatch
    /\ InitSearchVars
    /\ selectedType = "zip"
    /\ InitRecVars
    /\ InitHistVars
    /\ InitSchoolChatVars
    /\ InitInterviewVars
    /\ last = [op |-> "init", load |-> NoLoad]

\* the application and interview sections with the profile form and the
\* watchlist; #questionsList and #nextQuestionBtn can be used once shown
NextInterview ==
    \/ \E profile \in InterviewProfiles : handleProfileSubmit(profile)
    \/ \E school \in InterviewSchools : addToWatchlist(school)
    \/ /\ interviewSent < MaxAsked
       /\ \E schoolName \in OptionValues(schoolOptions.appSelect),
             rawQuestion \in QuestionInputs :
             analyzeAndGenerateResponse(schoolName, rawQuestion)
    \/ \E r \in interviewRequests, resp \in PlainResponses : analyzeResponse(r, resp)
    \/ /\ interviewSent < MaxAsked
       /\ \E schoolName \in OptionValues(schoolOptions.interviewSelect) :
             generateInterviewQuestions(schoolName)
    \/ \E r \in interviewRequests, resp \in GenerateResponses :
          generateInterviewQuestionsResponse(r, resp)
    \/ \E index \in 0..(MaxQuestions - 1) : startPracticing(index)
    \/ loadNextQuestion

\* one practice run: questions are generated once, then the user records
\* answers, stops them by hand and moves between the questions
NextPractice ==
    \/ \E profile \in InterviewProfiles : handleProfileSubmit(profile)
    \/ \E school \in InterviewSchools : addToWatchlist(school)
    \/ /\ interviewSent = 0
       /\ \E schoolName \in OptionValues(schoolOptions.interviewSelect) :
             generateInterviewQuestions(schoolName)
    \/ \E r \in interviewRequests, resp \in GenerateResponses :
          generateInterviewQuestionsResponse(r, resp)
    \/ \E index \in 0..(MaxQuestions - 1) : startPracticing(index)
    \/ loadNextQuestion
    \/ recordingArea = "shown" /\ recordButtonClick
    \/ microphoneGranted
    \/ microphoneDenied
    \/ \E id \in 1..MaxRecordings : processRecording(id)
    \/ \E r \in interviewRequests, resp \in TranscribeResponses : transcribeResponse(r, resp)
    \/ \E r \in interviewRequests, resp \in PlainResponses : feedbackResponse(r, resp)

\* the record button over one practice run, with the clock and the
\* auto-stop timers; what happens to a finished recording is left out
NextRecorder ==
    \/ \E profile \in InterviewProfiles : handleProfileSubmit(profile)
    \/ \E school \in InterviewSchools : addToWatchlist(school)
    \/ /\ interviewSent = 0
       /\ \E schoolName \in OptionValues(schoolOptions.interviewSelect) :
             generateInterviewQuestions(schoolName)
    \/ \E r \in interviewRequests, resp \in GenerateResponses :
          generateInterviewQuestionsResponse(r, resp)
    \/ \E index \in 0..(MaxQuestions - 1) : startPracticing(index)
    \/ loadNextQuestion
    \/ recordingArea = "shown" /\ recordButtonClick
    \/ microphoneGranted
    \/ microphoneDenied
    \/ \E id \in timers : autoStopTimer(id)
    \/ tickRec

InitRecorder == InitInterview

SpecRecorder == InitRecorder /\ [][NextRecorder]_vars

InitPractice == InitInterview

SpecPractice == InitPractice /\ [][NextPractice]_vars

SpecInterview == InitInterview /\ [][NextInterview]_vars

-----------------------------------------------------------------------------
(* C1: addToWatchlist with a school whose name is already in the watchlist *)
(* leaves state.watchlist and the stored watchlist unchanged and shows an  *)
(* alert.                                                                  *)
C1_DuplicateRejected ==
    [][(last'.op = "addToWatchlist" /\ HasName(watchlist, last'.name))
         => /\ watchlist' = watchlist
            /\ storage'.watchlist = storage.watchlist
            /\ alertMsg' = "School already in watchlist"]_vars

C1_Witness ==
    /\ last.op = "addToWatchlist"
    /\ last.dup
    /\ HasName(watchlist, last.name)
    /\ alertMsg = "School already in watchlist"

(* C2: removeFromWatchlist(name) removes exactly the entry named name:     *)
(* the entries before it and after it remain, in the same order; when no   *)
(* entry has that name the watchlist is unchanged.                         *)
C2_RemoveExactlyThatEntry ==
    [][last'.op = "removeFromWatchlist"
         => IF HasName(watchlist, last'.name)
            THEN \E k \in 1..Len(watchlist) :
                    /\ watchlist[k].name = last'.name
                    /\ watchlist' = SubSeq(watchlist, 1, k - 1)
                                     \o SubSeq(watchlist, k + 1, Len(watchlist))
            ELSE watchlist' = watchlist]_vars

C2_Witness ==
    /\ last.op = "removeFromWatchlist"
    /\ last.dup
    /\ Len(watchlist) >= 2
    /\ ~HasName(watchlist, last.name)

(* C11: no two entries of state.watchlist have the same name, whatever    *)
(* addToWatchlist, removeFromWatchlist and toggleWatchlist calls are made *)
(* from the empty watchlist.                                               *)
C11_NamesPairwiseDistinct ==
    \A i, j \in 1..Len(watchlist) : watchlist[i].name = watchlist[j].name => i = j

C11_Witness ==
    /\ last.op = "toggleWatchlist"
    /\ ~last.dup
    /\ alertMsg = "School already in watchlist"
    /\ Len(watchlist) = NumSchools - 1
    /\ toggleBtn.added = FALSE

-----------------------------------------------------------------------------
\* the requests sent by the step
Sent == network' \ network
\* the requests whose response the step handles
Answered == network \ network'

(* C4 as stated: the search_type sent by performSearch is the mode that    *)
(* was selected before the handler ran, whatever the query text is.        *)
C4_SelectionNeverOverridden ==
    [][(last'.op = "performSearch" /\ last'.sent)
         => \A r \in Sent : r.search_type = selectedType]_vars

(* C4, amended: the search_type sent by performSearch is the checked mode  *)
(* when performSearch runs. For a search from the button or the Enter key  *)
(* that is the mode selected before, whatever the query text; an example   *)
(* chip first checks zip when its text is five digits and name otherwise.  *)
C4_SentTypeIsCheckedMode ==
    [][(last'.op = "performSearch" /\ last'.sent)
         => /\ Cardinality(Sent) = 1
            /\ \A r \in Sent :
                  /\ r.kind = "search"
                  /\ r.search_type = selectedType'
                  /\ last'.via = "typed" => selectedType' = selectedType
                  /\ last'.via = "chip" =>
                        selectedType' = IF IsZip(r.query) THEN "zip" ELSE "name"]_vars

C4_Witness ==
    /\ last.op = "performSearch"
    /\ last.via = "typed"
    /\ last.sent
    /\ \E r \in network :
          /\ r.kind = "search"
          /\ r.epoch = searchesSent
          /\ IsZip(r.query)
          /\ r.search_type = "city"
    /\ \E r \in network :
          /\ r.kind = "search"
          /\ r.epoch < searchesSent
          /\ ~IsZip(r.query)
          /\ r.search_type = "zip"

(* C6: when a load-more response brings a non-empty page,                  *)
(* state.loadedSchools becomes the schools loaded before followed by the   *)
(* page, and the re-rendered list shows a card for each of them in order.  *)
C6_LoadMoreAppends ==
    [][(last'.op = "loadMoreSchoolsResponse" /\ last'.ok = "yes" /\ last'.schools # <<>>)
         => /\ Len(loadedSchools') = Len(loadedSchools) + Len(last'.schools)
            /\ \A i \in 1..Len(loadedSchools) : loadedSchools'[i] = loadedSchools[i]
            /\ \A i \in 1..Len(last'.schools) :
                  loadedSchools'[Len(loadedSchools) + i] = last'.schools[i]
            /\ resultsPanel'.view = "list"
            /\ resultsPanel'.cards = Names(loadedSchools')]_vars

C6_Witness ==
    /\ last.op = "loadMoreSchoolsResponse"
    /\ last.ok = "yes"
    /\ last.schools # <<>>
    /\ Len(loadedSchools) > Len(last.schools)
    /\ loadedSchools[1] # loadedSchools[Len(loadedSchools)]
    /\ resultsPanel.cards = Names(loadedSchools)

(* C7: a load-more request carries the names of all schools in             *)
(* state.loadedSchools as exclude_schools, and the query, search type and  *)
(* miles of the current search.                                            *)
C7_LoadMoreRequest ==
    [][last'.op = "loadMoreSchools"
         => /\ Cardinality(Sent) = 1
            /\ \A r \in Sent :
                  /\ r.kind = "more"
                  /\ Len(r.exclude_schools) = Len(loadedSchools)
                  /\ \A i \in 1..Len(loadedSchools) :
                        r.exclude_schools[i] = loadedSchools[i].name
                  /\ Obj(r.query) = currentSearchQuery
                  /\ r.search_type = currentSearchType
                  /\ r.miles = currentMiles]_vars

C7_Witness ==
    /\ last.op = "loadMoreSchools"
    /\ moresSent = 2
    /\ Len(loadedSchools) >= 2
    /\ currentMiles # DefaultMiles
    /\ \E r \in network : r.kind = "more" /\ Len(r.exclude_schools) = Len(loadedSchools)

(* C8: once a load-more page came back empty (state.allSchoolsLoaded is    *)
(* true, until the next performSearch resets it) the load-more control is  *)
(* not available and no load-more request is sent.                         *)
C8_NoLoadMoreAfterEmptyPage ==
    allSchoolsLoaded => resultsPanel.btn.look \notin {"enabled", "error"}

(* C9: when a search request fails, the results panel holds the error text *)
(* and nothing else: no school card and no load-more control.              *)
C9_FailedSearchShowsOnlyError ==
    [][(last'.op = "performSearchResponse" /\ last'.ok # "yes")
         => /\ resultsPanel'.view = "error"
            /\ resultsPanel'.error = SearchErrorMessage(last'.ok)
            /\ resultsPanel'.cards = <<>>
            /\ resultsPanel'.btn = NoButton]_vars

C9_Witness ==
    /\ last.op = "performSearchResponse"
    /\ last.ok # "yes"
    /\ last.hadCards
    /\ resultsPanel.view = "error"

(* C12: a failed load-more response leaves state.loadedSchools,           *)
(* state.allSchoolsLoaded and the cards in the panel alone; the button    *)
(* that was clicked, while it is still the one in the page, is enabled    *)
(* again and the list is the one the request was sent for.                *)
C12_FailedLoadMoreKeepsList ==
    [][(last'.op = "loadMoreSchoolsResponse" /\ last'.ok # "yes")
         => /\ loadedSchools' = loadedSchools
            /\ allSchoolsLoaded' = allSchoolsLoaded
            /\ resultsPanel'.view = resultsPanel.view
            /\ resultsPanel'.cards = resultsPanel.cards
            /\ \A r \in Answered :
                  r.btn = resultsPanel.btn.id
                     => /\ resultsPanel'.btn.look = "error"
                        /\ Names(loadedSchools') = r.exclude_schools
                        /\ resultsPanel'.cards = r.exclude_schools]_vars

C12_Witness ==
    /\ last.op = "loadMoreSchoolsResponse"
    /\ last.ok = "nonjson"
    /\ resultsPanel.btn.look = "error"
    /\ resultsPanel.view = "list"
    /\ Len(loadedSchools) = 2
    /\ resultsPanel.cards = Names(loadedSchools)

(* C13 as stated: a failed search leaves the state as it was before the   *)
(* search was issued. Before the first search the fields hold their       *)
(* initial values, so a failed first search must leave those.             *)
C13_FailedSearchRestoresState ==
    [][(last'.op = "performSearchResponse" /\ last'.ok # "yes"
          /\ searchesSent = 1 /\ moresSent = 0)
         => /\ currentSearchQuery' = NULL
            /\ currentSearchType' = ""
            /\ currentMiles' = DefaultMiles
            /\ loadedSchools' = <<>>
            /\ allSchoolsLoaded' = FALSE
            /\ searchContext' = <<>>]_vars

(* C13: the handling of a failed search changes the results panel only;   *)
(* the state fields were set when the search was issued:                   *)
(* currentSearchQuery, currentSearchType and currentMiles to those of the *)
(* request, loadedSchools to the empty list, allSchoolsLoaded to false,   *)
(* searchContext left as it was.                                           *)
C13_FailureChangesPanelOnly ==
    [][/\ (last'.op = "performSearchResponse" /\ last'.ok # "yes")
            => UNCHANGED <<currentSearchQuery, currentSearchType, currentMiles,
                           loadedSchools, allSchoolsLoaded, searchContext, chatVisible>>
       /\ (last'.op = "performSearch" /\ last'.sent)
            => /\ \A r \in Sent : /\ currentSearchQuery' = Obj(r.query)
                                  /\ currentSearchType' = r.search_type
                                  /\ currentMiles' = r.miles
               /\ loadedSchools' = <<>>
               /\ allSchoolsLoaded' = FALSE
               /\ searchContext' = searchContext]_vars

C13_Witness ==
    /\ last.op = "performSearchResponse"
    /\ last.ok = "rejected"
    /\ searchContext # <<>>
    /\ chatVisible
    /\ currentSearchQuery = Obj(NameText)
    /\ resultsPanel.view = "error"
    /\ network = {}

(* C17 as stated: after a successful search response the panel,          *)
(* state.loadedSchools and state.searchContext show that response, so     *)
(* state.loadedSchools holds no school of another response.               *)
C17_LastArrivedShownEverywhere ==
    [][(last'.op = "performSearchResponse" /\ last'.ok = "yes")
         => /\ resultsPanel'.cards = Names(last'.schools)
            /\ \A r \in Answered : searchContext' = StringifyData(r.search_type, last')
            /\ \A i \in 1..Len(loadedSchools') :
                  \E j \in 1..Len(last'.schools) : loadedSchools'[i] = last'.schools[j]]_vars

(* C17: every search response overwrites the results panel when it        *)
(* arrives, whichever search it belongs to: a successful one with its     *)
(* cards, a failed one with the error. A successful response also         *)
(* overwrites state.searchContext, and state.loadedSchools unless it is   *)
(* the response of a name search, which leaves state.loadedSchools alone. *)
C17_EachResponseOverwrites ==
    [][last'.op = "performSearchResponse"
         => \A r \in Answered :
              IF last'.ok = "yes"
              THEN /\ resultsPanel'.view = IF r.search_type = "name" THEN "details"
                                           ELSE IF last'.schools = <<>> THEN "none_found"
                                           ELSE "list"
                   /\ resultsPanel'.cards = Names(last'.schools)
                   /\ searchContext' = StringifyData(r.search_type, last')
                   /\ loadedSchools' = IF r.search_type = "name" THEN loadedSchools
                                       ELSE last'.schools
              ELSE /\ resultsPanel' = ErrorPanel(SearchErrorMessage(last'.ok))
                   /\ UNCHANGED <<searchContext, loadedSchools>>]_vars

\* both searches were answered, the zip search issued first being answered last
C17_Witness ==
    /\ last.op = "performSearchResponse"
    /\ last.ok = "yes"
    /\ searchesSent = 2
    /\ moresSent = 0
    /\ network = {}
    /\ currentSearchType = "name"
    /\ resultsPanel.view = "list"
    /\ loadedSchools = last.schools

(* C3: without a mode selector, performSearch sends search_type zip when   *)
(* the trimmed text of the search box is exactly five digits and name for  *)
(* any other non-empty text; a successful zip response is rendered as a    *)
(* list (one card per school, or the no-schools notice when the list is    *)
(* empty) and a successful name response as a single detail card.          *)
C3_ZipOrName ==
    [][/\ (last'.op = "performSearch2" /\ last'.sent)
           => /\ Cardinality(Sent) = 1
              /\ \A r \in Sent :
                    /\ r.query # <<>>
                    /\ r.query[1] # " " /\ r.query[Len(r.query)] # " "
                    /\ \E a, b \in SeqsUpTo({" "}, MaxQueryLen) :
                          searchInput = a \o r.query \o b
                    /\ r.search_type =
                          IF Len(r.query) = 5 /\ \A i \in 1..Len(r.query) : r.query[i] = "7"
                          THEN "zip" ELSE "name"
       /\ (last'.op = "performSearch2Response" /\ last'.ok = "yes")
           => IF last'.search_type = "zip"
              THEN /\ resultsPanel'.cards = Names(last'.schools)
                   /\ resultsPanel'.view =
                         IF last'.schools = <<>> THEN "none_found" ELSE "list"
              ELSE /\ resultsPanel'.view = "details"
                   /\ Len(resultsPanel'.cards) = 1]_vars

C3_Witness ==
    /\ last.op = "performSearch2Response"
    /\ last.ok = "yes"
    /\ last.search_type = "zip"
    /\ resultsPanel.view = "list"
    /\ Len(searchInput) > ZipLength
    /\ \E r \in network : r.search_type = "zip" /\ Len(r.query) = ZipLength

(* C5: a recording that is not stopped by hand is stopped when 60 seconds  *)
(* have passed since it started: once the auto-stop timer set at its start *)
(* has run, the recorder is no longer recording and its tracks are         *)
(* stopped.                                                                *)
C5_AutoStopAtLimit ==
    \A id \in 1..Len(recorders) :
        (now >= Deadline(id) /\ id \notin timers)
            => recorders[id].state = "inactive" /\ recorders[id].tracks = "stopped"

(* C10: after a page reload the client shows the chat sessions it showed   *)
(* before, most recent first, each with the same messages in the same      *)
(* order.                                                                  *)
C10_HistorySurvivesReload ==
    [][last'.op = "reloadChats"
         => /\ Len(chats') = Len(chats)
            /\ \A i \in 1..Len(chats) :
                  /\ chats'[i].id = chats[i].id
                  /\ chats'[i].title = chats[i].title
                  /\ chats'[i].createdAt = chats[i].createdAt
                  /\ chats'[i].messages = chats[i].messages
            /\ \A i, j \in 1..Len(chats') :
                  i < j => /\ chats'[i].createdAt >= chats'[j].createdAt
                           /\ chats'[i].id > chats'[j].id]_vars

C10_Witness ==
    /\ last.op = "reloadChats"
    /\ Len(chats) = 2
    /\ chats[1].createdAt > chats[2].createdAt
    /\ Len(chats[1].messages) = 2
    /\ chats[1].messages[1].role = "user"
    /\ chats[1].messages[2].role = "assistant"

(* C14: the microphone is held by one recording at a time: at most one    *)
(* recorder is recording, and a recorder that is recording, or whose      *)
(* tracks are live, is the one state.mediaRecorder refers to, so that a   *)
(* manual stop or the auto-stop releases it.                               *)
C14_ExclusiveMicrophone ==
    \A id \in 1..Len(recorders) :
        (recorders[id].state = "recording" \/ recorders[id].tracks = "live")
            => id = mediaRecorder

(* C15: the auto-stop ends a recording only when 60 seconds have passed   *)
(* since that recording started.                                           *)
C15_StoppedOnlyByOwnTimer ==
    [][last'.op = "autoStop"
         => \A id \in 1..Len(recorders) :
               (recorders[id].state = "recording" /\ recorders'[id].state = "inactive")
                   => now >= Deadline(id)]_vars

(* C16: at most one search or load-more request and at most one chat      *)
(* request is in flight at any time.                                       *)
C16_OneRequestPerArea ==
    /\ Cardinality(network) <= 1
    /\ Cardinality(chatRequests) <= 1

(* C18: whenever no chat request is in flight, the chat contains no       *)
(* thinking placeholder.                                                   *)
C18_NoPlaceholderWhenIdle ==
    chatRequests = {}
        => \A i \in 1..Len(chatMessages) :
              ~(chatMessages[i].role = "assistant" /\ chatMessages[i].content = ThinkingText)

\* the requests sent to /api/schools/chat by the step
ChatSent == chatRequests' \ chatRequests

(* C19 as stated: a chat message carries state.searchContext, every       *)
(* successful /api/schools/search response (of a search or of load-more)  *)
(* makes state.searchContext the JSON of that response, and no other      *)
(* step changes state.searchContext.                                       *)
C19_ContextIsLastSearchPayload ==
    [][/\ \A r \in ChatSent : r.context = searchContext
       /\ IF last'.op \in {"performSearchResponse", "loadMoreSchoolsResponse"}
             /\ last'.ok = "yes"
          THEN \A r \in Answered : searchContext' = StringifyData(r.search_type, last')
          ELSE searchContext' = searchContext]_vars

(* C19: a chat message carries state.searchContext as it is when the      *)
(* message is sent. state.searchContext is written by a successful search *)
(* response (the JSON of the whole response) and by a details response    *)
(* that replaces its card (the JSON of the school object alone); no other *)
(* step, a load-more response included, changes it.                        *)
C19_ContextIsLastSearchOrDetails ==
    [][/\ \A r \in ChatSent : r.context = searchContext
       /\ CASE last'.op = "performSearchResponse" /\ last'.ok = "yes" ->
                 \A r \in Answered :
                    searchContext' =
                       IF r.search_type = "name"
                       THEN <<"{", "success", "true", "school">>
                            \o StringifySchools(last'.schools) \o <<"}">>
                       ELSE <<"{", "success", "true", "schools", "[">>
                            \o StringifySchools(last'.schools) \o <<"]", "}">>
            [] last'.op = "loadSchoolDetailsResponse" /\ last'.applied ->
                 searchContext' = StringifySchools(last'.schools)
            [] OTHER -> searchContext' = searchContext]_vars

\* a chat message was sent after a details response replaced the search payload
C19_Witness ==
    /\ last.op = "sendChatMessage"
    /\ last.sent
    /\ detailsSent = 1
    /\ detailRequests = {}
    /\ resultsPanel.view = "list"
    /\ \E i \in 1..Len(resultsPanel.looks) : resultsPanel.looks[i] = "expanded"
    /\ \E r \in chatRequests : r.context = searchContext /\ r.context[2] = "name"

(* C20: after handleProfileSubmit, state.studentProfile and the stored     *)
(* profile have exactly the keys the form submitted, with the submitted   *)
(* values; a key of the previous profile that was not submitted again is  *)
(* gone from both.                                                         *)
C20_ProfileOverwrittenWholesale ==
    [][last'.op = "handleProfileSubmit"
         => /\ studentProfile' = last'.profile
            /\ ParseProfile(storage'.studentProfile) = last'.profile
            /\ \A field \in ProfileFields :
                  last'.profile[1][field] = Absent
                     => /\ studentProfile'[1][field] = Absent
                        /\ \A i \in 1..Len(storage'.studentProfile) :
                              storage'.studentProfile[i] # field]_vars

\* the previous profile had a grade, the form saved last submitted none
C20_Witness ==
    /\ last.op = "handleProfileSubmit"
    /\ last.overwrites
    /\ last.profile[1].grade = Absent
    /\ last.profile[1].studentName = "Kai"
    /\ studentProfile = last.profile
    /\ storage.studentProfile = <<"{", "studentName", "Kai", "}">>

-----------------------------------------------------------------------------
(* C21: a page reload (loadFromLocalStorage on fresh in-memory state)      *)
(* after any sequence of profile submits and watchlist add, remove and     *)
(* toggle operations restores the same student profile and the same        *)
(* watchlist entries in the same order as were in memory before it.        *)
C21_ReloadRestoresMemory ==
    [][last'.op = "loadFromLocalStorage"
       => /\ studentProfile' = studentProfile
          /\ watchlist' = watchlist]_vars

\* a reload with a profile and two watchlist entries in memory
C21_Witness ==
    /\ last.op = "loadFromLocalStorage"
    /\ studentProfile # NULL
    /\ Len(watchlist) >= 2

-----------------------------------------------------------------------------
(* C22: after every completed watchlist add, remove or toggle, each of the *)
(* two school dropdowns (application and interview) offers the empty       *)
(* placeholder option and then exactly the names of the current watchlist  *)
(* entries, in watchlist order.                                            *)
OffersWatchlist(options, schools) ==
    /\ Len(options) = Len(schools) + 1
    /\ options[1].value = ""
    /\ \A i \in 1..Len(schools) :
          /\ options[i + 1].value = schools[i].name
          /\ options[i + 1].text = schools[i].name

C22_DropdownsFollowWatchlist ==
    [][last'.op \in {"addToWatchlist", "removeFromWatchlist", "toggleWatchlist"}
       => /\ OffersWatchlist(schoolOptions'.appSelect, watchlist')
          /\ OffersWatchlist(schoolOptions'.interviewSelect, watchlist')]_vars

\* a toggle has removed the first of two entries: the dropdowns offer the other
C22_Witness ==
    /\ last.op = "toggleWatchlist"
    /\ last.dup
    /\ Len(watchlist) = 1
    /\ Len(schoolOptions.interviewSelect) = 2

-----------------------------------------------------------------------------
(* C23: no application-analysis request is sent unless a student profile   *)
(* exists, a school is selected and the question is non-empty; no          *)
(* interview-generation request is sent unless a student profile exists    *)
(* and a school is selected; when a presence check fails the operation     *)
(* sends nothing and leaves state.interviewQuestions,                      *)
(* state.currentQuestionIndex and state.selectedSchool unchanged.          *)
InterviewSent == interviewRequests' \ interviewRequests

PresenceCheckFails ==
    /\ last'.op \in {"analyzeAndGenerateResponse", "generateInterviewQuestions"}
    /\ \/ studentProfile = NULL
       \/ last'.schoolName = ""
       \/ last'.op = "analyzeAndGenerateResponse" /\ last'.question = <<>>

C23_RequestsNeedProfileSchoolQuestion ==
    [][/\ \A r \in InterviewSent :
             /\ r.kind = "analyze"
                => /\ studentProfile # NULL
                   /\ r.school_name \in SchoolNames
                   /\ r.question # <<>>
                   /\ \A i \in 1..Len(r.question) : r.question[i] \notin Whitespace
             /\ r.kind = "generate"
                => /\ studentProfile # NULL
                   /\ r.school_name \in SchoolNames
       /\ PresenceCheckFails
          => /\ InterviewSent = {}
             /\ UNCHANGED <<interviewQuestions, currentQuestionIndex, selectedSchool>>]_vars

\* with questions loaded and a generation request in flight, an analysis
\* was asked for with a school selected and only blanks typed
C23_Witness ==
    /\ last.op = "analyzeAndGenerateResponse"
    /\ last.schoolName # ""
    /\ last.question = <<>>
    /\ studentProfile # NULL
    /\ interviewQuestions # <<>>
    /\ \E r \in interviewRequests : r.kind = "generate"
    /\ \A r \in interviewRequests : r.kind # "analyze"

-----------------------------------------------------------------------------
(* C24: for each recording, the feedback request is sent only after the    *)
(* transcription request for that recording has succeeded, and it carries  *)
(* exactly the transcription text returned; when transcription fails no    *)
(* feedback request is sent and an error is written to the transcription   *)
(* area.                                                                   *)
InterviewAnswered == interviewRequests \ interviewRequests'

-----------------------------------------------------------------------------
(* C25: a chat request that fails (transport error, non-JSON body or a     *)
(* success:false response) removes only its own thinking placeholder and   *)
(* appends exactly one assistant error message: every user message and     *)
(* every earlier assistant response stays in the chat, in order.  Stated   *)
(* for a request that is the only one in flight, with its placeholder the  *)
(* last message of the chat and the only placeholder.                      *)
C25_FailedChatKeepsHistory ==
    [][(/\ last'.op = "sendChatMessageResponse"
        /\ last'.ok # "yes"
        /\ Cardinality(chatRequests) = 1
        /\ chatMessages[Len(chatMessages)].content = ThinkingText
        /\ \A i \in 1..(Len(chatMessages) - 1) : chatMessages[i].content # ThinkingText)
       => LET NotThinking(m) == m.content # ThinkingText IN
          chatMessages' =
             Append(SelectSeq(chatMessages, NotThinking),
                    [role |-> "assistant", content |-> ChatErrorMessage(last'.ok)])]_vars

-----------------------------------------------------------------------------
(* C26: when two chat messages are sent before the first response arrives, *)
(* then after both responses have arrived (in either order) the chat shows *)
(* both user messages and both assistant responses, and no thinking        *)
(* placeholder remains.  Stated at the arrival of the last response, a     *)
(* successful one, after two messages.                                     *)
C26_BothAnswersShown ==
    [][(/\ last'.op = "sendChatMessageResponse"
        /\ last'.ok = "yes"
        /\ chatsSent = 2
        /\ chatRequests' = {})
       => LET IsUser(m) == m.role = "user"
              IsResponse(m) == m.role = "assistant" /\ m.content # ThinkingText
              IsThinking(m) == m.content = ThinkingText
          IN /\ Len(SelectSeq(chatMessages', IsUser)) = 2
             /\ Len(SelectSeq(chatMessages', IsResponse)) = 2
             /\ SelectSeq(chatMessages', IsThinking) = <<>>]_vars

-----------------------------------------------------------------------------
(* C27: under every interleaving of search and load-more requests and      *)
(* their responses, a response to a request issued for an earlier search   *)
(* than the one state.currentSearchQuery and state.currentSearchType       *)
(* identify never adds to, replaces, or marks as exhausted                 *)
(* (allSchoolsLoaded) the list of the current search.                      *)
C27_StaleResponsesIgnored ==
    [][\A r \in Answered :
          (/\ r.epoch < searchesSent
           /\ \/ r.query # currentSearchQuery[1]
              \/ r.search_type # currentSearchType)
          => UNCHANGED <<loadedSchools, allSchoolsLoaded>>]_vars

-----------------------------------------------------------------------------
(* C28: the question sent in the feedback request for a recording is the   *)
(* question that was the current question when that recording was made     *)
(* (here: when it ended), also when the user moves to another question     *)
(* while the transcription request is still in flight.                     *)
C28_FeedbackAboutRecordedQuestion ==
    [][\A f \in InterviewSent :
          f.kind = "feedback" => f.question = <<f.asked>>]_vars

-----------------------------------------------------------------------------
(* C29: every question load refers to an existing question: for any        *)
(* question list returned by the backend (including an empty list) and any *)
(* sequence of generate, click-to-practice and next-question actions,      *)
(* 0 <= state.currentQuestionIndex < state.interviewQuestions.length holds *)
(* whenever loadQuestion runs, and next-question moves from the last       *)
(* question back to the first.                                             *)
C29_LoadedQuestionExists ==
    [][/\ (/\ last'.op \in {"generateInterviewQuestionsResponse",
                            "startPracticing", "loadNextQuestion"}
           /\ last'.load # NoLoad)
          => /\ last'.load.index = currentQuestionIndex'
             /\ 0 <= currentQuestionIndex'
             /\ currentQuestionIndex' < Len(interviewQuestions')
       /\ (/\ last'.op = "loadNextQuestion"
           /\ currentQuestionIndex = Len(interviewQuestions) - 1)
          => currentQuestionIndex' = 0]_vars

(* C30: the record button shows the 'Stop Recording' state exactly when    *)
(* state.mediaRecorder is recording, after any sequence of start, stop,    *)
(* auto-stop, question load and next-question actions.                     *)
C30_ButtonShowsRecorderState ==
    (recordBtn = "Stop Recording") <=> IsRecording

====
